---- MODULE Spec2Model ----
(***************************************************************************)
(* A model of the bns wire codec: the name codec of lib/encoding.js and    *)
(* the record / message codec of lib/wire.js.                              *)
(*                                                                         *)
(* Octets and characters are naturals, buffers and strings are sequences   *)
(* of them.  JavaScript indexes from 0, TLA+ from 1: At(s, k) reads the    *)
(* element the source calls s[k].                                          *)
(***************************************************************************)
EXTENDS Integers, Sequences, FiniteSets, TLC

VARIABLES
  nc,       \* name codec harness: a name on its way through readName / writeName
  rnData,   \* buffer handed to readName
  rnOff,    \* offset handed to readName
  rn,       \* readName's loop state on rnData
  msg,      \* a Message object
  enc,      \* the last msg.encode / msg.compress call and what it returned
  dec,      \* what Message.decode made of the octets returned
  rh        \* record harness: a Record on its way through getSize / write / read

nameVars == <<nc>>
readVars == <<rnData, rnOff, rn>>
msgVars == <<msg, enc, dec>>
recVars == <<rh>>
vars == <<nc, rnData, rnOff, rn, msg, enc, dec, rh>>

(***************************************************************************)
(* Program constants                                                       *)
(***************************************************************************)
BACKSLASH == 92
DOT == 46
ZERO_CHAR == 48
SPACE == 32
QUOTE == 34
SEMICOLON == 59
MAX_TEXT == 254
NO_DATA_LEN == 256
LABEL_LIMIT == 64
MAP_LIMIT == 16384
READ_MAX == 255
MAX_PTRS == 10
PTR_BITS == 192
PTR_XOR == 49152

At(s, k) == s[k + 1]

Repeat(b, k) == [x \in 1..k |-> b]

\* the element of a set of one element.  Only({e : x \in {v}}) is e with x
\* standing for the value of v, which is computed once: const x = v; e
Only(S) == CHOOSE x \in S : TRUE

(***************************************************************************)
(* The compression map (a JavaScript Map from suffix text to offset, or    *)
(* null).                                                                  *)
(***************************************************************************)
NullMap == [has |-> FALSE, m |-> <<>>]
EmptyMap == [has |-> TRUE, m |-> <<>>]

MapHas(map, s) == s \in DOMAIN map.m
MapGet(map, s) == map.m[s]
MapSet(map, s, v) ==
  [map EXCEPT !.m = [k \in (DOMAIN map.m) \cup {s} |-> IF k = s THEN v ELSE map.m[k]]]

(***************************************************************************)
(* encoding.js helpers                                                     *)
(***************************************************************************)
isDigit(ch) == ch - ZERO_CHAR >= 0 /\ ch - ZERO_CHAR <= 9

toByte(n, i) ==
  (At(n, i) - ZERO_CHAR) * 100 + (At(n, i + 1) - ZERO_CHAR) * 10 + (At(n, i + 2) - ZERO_CHAR)

toDDD(b) == <<ZERO_CHAR + (b \div 100), ZERO_CHAR + ((b \div 10) % 10), ZERO_CHAR + (b % 10)>>

ASCII(b) == IF b < 32 \/ b = 127 THEN 32 ELSE b

\* for (j = i; j < nl - 1; j++) n[j] = n[j + 1]
ShiftOne(n, i, nl) ==
  SubSeq(n, 1, i) \o SubSeq(n, i + 2, nl) \o SubSeq(n, nl, Len(n))

\* n[i] = toByte(n, i); for (j = i + 1; j < nl - 2; j++) n[j] = n[j + 2]
ShiftTwo(n, i, nl) ==
  SubSeq(n, 1, i) \o <<toByte(n, i) % 256>> \o SubSeq(n, i + 4, nl)
    \o SubSeq(n, nl - 1, Len(n))

\* name.substring(begin)
Substring(s, begin) == IF begin >= Len(s) THEN <<>> ELSE SubSeq(s, begin + 1, Len(s))

\* n.toString('ascii', 0, nl)
AsciiString(n, nl) == [k \in 1..nl |-> n[k] % 128]

(***************************************************************************)
(* writeName: the loop over the characters of the name                     *)
(***************************************************************************)
WN_Escape(w, len) ==
  IF w.off + 1 > len
    THEN [w EXCEPT !.err = "EncodingError"]
    ELSE Only({
         Only({
           [w EXCEPT !.n = IF ddd THEN ShiftTwo(n1, w.i, w.nl - 1) ELSE n1,
                     !.nl = IF ddd THEN w.nl - 3 ELSE w.nl - 1,
                     !.escaped = TRUE,
                     !.fresh = FALSE,
                     !.i = w.i + 1]
           : ddd \in {/\ w.i + 2 < w.nl - 1
                      /\ isDigit(At(n1, w.i))
                      /\ isDigit(At(n1, w.i + 1))
                      /\ isDigit(At(n1, w.i + 2))}})
           : n1 \in {ShiftOne(w.n, w.i, w.nl)}})

WN_Label(w, hasData, len, cmp) ==
  LET size == w.i - w.begin
      offset == w.off
      off1 == w.off + 1 + size
      refresh == cmp /\ ~w.fresh
  IN IF w.i > 0 /\ At(w.n, w.i - 1) = DOT /\ ~w.escaped
       THEN [w EXCEPT !.err = "EncodingError"]
     ELSE IF size >= LABEL_LIMIT
       THEN [w EXCEPT !.err = "EncodingError"]
     ELSE IF off1 > len
       THEN [w EXCEPT !.err = "EncodingError"]
     ELSE Only({
          Only({
            LET known == w.map.has /\ s # <<DOT>> /\ MapHas(w.map, s)
                insert == w.map.has /\ s # <<DOT>> /\ ~MapHas(w.map, s)
                            /\ offset < MAP_LIMIT
                point == known /\ cmp /\ w.ptr = -1
            IN [w EXCEPT
                  !.bytes = IF hasData
                              THEN w.bytes \o <<size>> \o SubSeq(w.n, w.begin + 1, w.i)
                              ELSE w.bytes,
                  !.off = off1,
                  !.name = name1,
                  !.fresh = IF refresh THEN TRUE ELSE w.fresh,
                  !.map = IF insert THEN MapSet(w.map, s, offset) ELSE w.map,
                  !.ptr = IF point THEN MapGet(w.map, s) ELSE w.ptr,
                  !.pos = IF point THEN offset ELSE w.pos,
                  !.brk = point,
                  !.labels = IF point THEN w.labels ELSE w.labels + 1,
                  !.begin = IF point THEN w.begin ELSE w.i + 1,
                  !.escaped = IF point THEN w.escaped ELSE FALSE,
                  !.i = w.i + 1]
            : s \in {Substring(name1, w.begin)}})
            : name1 \in {IF refresh THEN AsciiString(w.n, w.nl) ELSE w.name}})

WN_Iter(w, hasData, len, cmp) ==
  IF At(w.n, w.i) = BACKSLASH THEN WN_Escape(w, len)
  ELSE IF At(w.n, w.i) = DOT THEN WN_Label(w, hasData, len, cmp)
  ELSE [w EXCEPT !.escaped = FALSE, !.i = w.i + 1]

\* at most k iterations of the loop (halved, to keep the evaluation shallow)
RECURSIVE WN_Times(_, _, _, _, _)
WN_Times(w, k, hasData, len, cmp) ==
  IF w.err # "none" \/ w.brk \/ w.i >= w.nl THEN w
  ELSE IF k <= 1 THEN WN_Iter(w, hasData, len, cmp)
  ELSE WN_Times(WN_Times(w, k \div 2, hasData, len, cmp), k - (k \div 2),
                hasData, len, cmp)

\* for (let i = 0; i < nl; i++): nl never grows, so nl iterations are enough
WN_Loop(w, hasData, len, cmp) == WN_Times(w, w.nl, hasData, len, cmp)

(***************************************************************************)
(* writeName(data, name, off, map, cmp).  hasData says whether data is a   *)
(* buffer (of length dataLen) or null.  The result holds the error kind,   *)
(* the new offset, the octets stored from the old offset on, the map and   *)
(* the label count; bare marks the return of a bare number for the empty   *)
(* name, ptrWrite the arguments of the data.writeUInt16BE call.            *)
(***************************************************************************)
WN_Result(err, off, bytes, map, labels) ==
  [err |-> err, off |-> off, bytes |-> bytes, map |-> map, labels |-> labels,
   bare |-> FALSE, ptrWrite |-> <<>>]

writeName(hasData, dataLen, name, off, map, cmp) ==
  LET len == IF hasData THEN dataLen ELSE NO_DATA_LEN
      nodot == name = <<>> \/ name[Len(name)] # DOT
      name1 == IF ~hasData /\ nodot THEN Append(name, DOT) ELSE name
      n == [k \in 1..Len(name1) |-> name1[k] % 256]
      w0 == [n |-> n, nl |-> Len(name1), i |-> 0, begin |-> 0, fresh |-> TRUE,
             escaped |-> FALSE, labels |-> 0, off |-> off, bytes |-> <<>>,
             map |-> map, name |-> name1, ptr |-> -1, pos |-> -1,
             err |-> "none", brk |-> FALSE]
  IN IF Len(name) > MAX_TEXT
       THEN WN_Result("AssertionError", off, <<>>, map, 0)
     ELSE IF Len(name) = 0
       THEN [WN_Result("none", off, <<>>, map, 0) EXCEPT !.bare = TRUE]
     ELSE IF hasData /\ nodot
       THEN WN_Result("EncodingError", off, <<>>, map, 0)
     ELSE Only({
       IF w.err # "none"
         THEN WN_Result(w.err, w.off, w.bytes, w.map, w.labels)
       ELSE IF Len(name1) = 1 /\ w.n[1] = DOT
         THEN WN_Result("none", w.off, w.bytes, w.map, w.labels)
       ELSE IF w.ptr # -1
         THEN [WN_Result("none", w.pos + 2,
                         IF hasData THEN SubSeq(w.bytes, 1, w.pos + 2 - off) ELSE <<>>,
                         w.map, w.labels)
                 EXCEPT !.ptrWrite = IF hasData THEN <<w.pos, w.ptr + PTR_XOR>>
                                       ELSE <<>>]
       ELSE WN_Result("none", w.off + 1,
                      IF hasData /\ w.off < len THEN Append(w.bytes, 0) ELSE w.bytes,
                      w.map, w.labels)
            : w \in {WN_Loop(w0, hasData, len, cmp)}})

\* const [off] = writeName(null, name, 0, map, cmp)
sizeName(name, map, cmp) ==
  Only({
    [err |-> IF r.err = "none" /\ r.bare THEN "TypeError" ELSE r.err,
     size |-> r.off, map |-> r.map]
    : r \in {writeName(FALSE, 0, name, 0, map, cmp)}})

(***************************************************************************)
(* readName: one iteration of its for (;;) loop.  The state holds off,     *)
(* name, res, max, ptr and where the function stands (run, done, or the    *)
(* kind of error thrown).                                                  *)
(***************************************************************************)
RN_Char(b) ==
  IF b \in {46, 40, 41, 59, 32, 64, 34, 92} THEN <<BACKSLASH, ASCII(b)>>
  ELSE IF b < 32 \/ b > 126 THEN <<BACKSLASH>> \o toDDD(b)
  ELSE <<ASCII(b)>>

\* a limit that does not grow with the characters escapes add
RN_Grow_NoEscapes(b) == 0

RN_Grow(b) ==
  IF b \in {46, 40, 41, 59, 32, 64, 34, 92} THEN 1
  ELSE IF b < 32 \/ b > 126 THEN 3
  ELSE 0

\* the text and the growth of max that the octets j..end-1 of a label add
RECURSIVE RN_Text(_, _, _)
RN_Text(data, j, end) ==
  IF j >= end THEN <<>>
  ELSE IF end - j = 1 THEN RN_Char(At(data, j))
  ELSE LET mid == j + ((end - j) \div 2)
       IN RN_Text(data, j, mid) \o RN_Text(data, mid, end)

RECURSIVE RN_Growth(_, _, _)
RN_Growth(data, j, end) ==
  IF j >= end THEN 0
  ELSE IF end - j = 1 THEN RN_Grow(At(data, j))
  ELSE LET mid == j + ((end - j) \div 2)
       IN RN_Growth(data, j, mid) + RN_Growth(data, mid, end)

\* name.length < max holds after the octets j..k-1 of the label were added
RN_Fits(data, s, j, k) ==
  Len(s.name) + Len(RN_Text(data, j, k)) < s.max + RN_Growth(data, j, k)

\* the for (j = off; j < off + c; j++) loop over the octets j..end-1 of a
\* label: it throws after the first octet that makes name.length >= max
RN_Label(data, s, j, end) ==
  IF \A k \in (j + 1)..end : RN_Fits(data, s, j, k)
    THEN [s EXCEPT !.name = s.name \o RN_Text(data, j, end),
                   !.max = s.max + RN_Growth(data, j, end)]
    ELSE LET stop == CHOOSE k \in (j + 1)..end :
                       /\ ~RN_Fits(data, s, j, k)
                       /\ \A m \in (j + 1)..(k - 1) : RN_Fits(data, s, j, m)
         IN [s EXCEPT !.name = s.name \o RN_Text(data, j, stop),
                      !.max = s.max + RN_Growth(data, j, stop),
                      !.pc = "EncodingError"]

RN_Finish(s) ==
  LET res1 == IF s.ptr = 0 THEN s.off ELSE s.res
      name1 == IF Len(s.name) = 0 THEN <<DOT>> ELSE s.name
  IN [s EXCEPT !.res = res1, !.name = name1,
               !.pc = IF Len(name1) >= s.max THEN "EncodingError" ELSE "done"]

\* RN_Pointer without the count of the pointers followed
RN_PointerUncounted(data, s, c) ==
  LET c1 == At(data, s.off)
      off1 == s.off + 1
  IN IF s.off >= Len(data)
       THEN [s EXCEPT !.pc = "EncodingError"]
       ELSE [s EXCEPT !.res = IF s.ptr = 0 THEN off1 ELSE s.res,
                      !.off = (c - PTR_BITS) * 256 + c1]

RN_Pointer(data, s, c) ==
  LET c1 == At(data, s.off)
      off1 == s.off + 1
      ptr1 == s.ptr + 1
  IN IF s.off >= Len(data)
       THEN [s EXCEPT !.pc = "EncodingError"]
       ELSE [s EXCEPT !.res = IF s.ptr = 0 THEN off1 ELSE s.res,
                      !.ptr = ptr1,
                      !.pc = IF ptr1 > MAX_PTRS THEN "EncodingError" ELSE "run",
                      !.off = IF ptr1 > MAX_PTRS THEN off1 ELSE (c - PTR_BITS) * 256 + c1]

RN_Step(data, s0) ==
  IF s0.off >= Len(data) THEN [s0 EXCEPT !.pc = "EncodingError"]
  ELSE LET c == At(data, s0.off)
           s == [s0 EXCEPT !.off = s0.off + 1]
       IN IF c = 0 THEN RN_Finish(s)
          ELSE IF c < 64
            THEN IF s.off + c > Len(data)
                   THEN [s EXCEPT !.pc = "EncodingError"]
                   ELSE Only({
                          IF t.pc # "run" THEN t
                          ELSE [t EXCEPT !.name = Append(t.name, DOT),
                                         !.off = s.off + c]
                          : t \in {RN_Label(data, s, s.off, s.off + c)}})
          ELSE IF c >= PTR_BITS THEN RN_Pointer(data, s, c)
          ELSE [s EXCEPT !.pc = "EncodingError"]

RN_Start(off) ==
  [off |-> off, name |-> <<>>, res |-> 0, max |-> READ_MAX, ptr |-> 0, pc |-> "run"]

\* at most k iterations of the for (;;) loop
RECURSIVE RN_Times(_, _, _)
RN_Times(data, s, k) ==
  IF s.pc # "run" THEN s
  ELSE IF k <= 1 THEN RN_Step(data, s)
  ELSE RN_Times(data, RN_Times(data, s, k \div 2), k - (k \div 2))

\* every iteration but the last reads a label (at least two octets further) or
\* follows one of at most MAX_PTRS + 1 pointers
RN_Run(data, s) == RN_Times(data, s, (MAX_PTRS + 2) * (Len(data) + 1))

\* readName(data, off): [err, off (the res returned), name]
readName(data, off) ==
  Only({
    [err |-> IF s.pc = "done" THEN "none" ELSE s.pc,
     off |-> s.res, name |-> s.name, ptr |-> s.ptr]
    : s \in {RN_Run(data, RN_Start(off))}})

(***************************************************************************)
(* Constants of lib/constants.js that lib/wire.js reads                    *)
(***************************************************************************)
MAX_UDP_SIZE == 512
flags_TC == 512
types_A == 1
types_NS == 2
types_NULL == 10
types_MX == 15
types_SIG == 24
types_OPT == 41
types_TSIG == 250
types_ANY == 255
classes_IN == 1
classes_ANY == 255
options_RESERVED == 0
options_LOCAL == 65001
options_LOCALSTART == 65001
options_LOCALEND == 65534

\* literals of lib/wire.js
HEADER_SIZE == 12
RR_FIXED == 10
QS_FIXED == 4
OPTION_FIXED == 4
SIG_FIXED == 18
TSIG_FIXED == 16
A_SIZE == 4
CODE_MASK == 15
OPCODE_SHIFT == 2048

(***************************************************************************)
(* bufio's StaticWriter (bio.write(size)) together with the compression    *)
(* map that travels with it through the write methods.  out holds the      *)
(* octets stored so far, off the writer's offset.                          *)
(***************************************************************************)
Writer(size, map) ==
  [size |-> size, off |-> 0, out |-> <<>>, err |-> "none", map |-> map]

writeBytes(bw, b) ==
  IF bw.err # "none" THEN bw
  ELSE IF bw.off + Len(b) > bw.size THEN [bw EXCEPT !.err = "EncodingError"]
  ELSE [bw EXCEPT !.out = bw.out \o b, !.off = bw.off + Len(b)]

writeU8(bw, v) == writeBytes(bw, <<v % 256>>)

writeU16BE(bw, v) == writeBytes(bw, <<(v \div 256) % 256, v % 256>>)

writeU32BE(bw, v) ==
  writeBytes(bw, <<(v \div 16777216) % 256, (v \div 65536) % 256,
                   (v \div 256) % 256, v % 256>>)

\* writeNameBW(bw, name, map): every caller in lib/wire.js leaves cmp out
writeNameBW(bw, name) ==
  IF bw.err # "none" THEN bw
  ELSE Only({
         [bw EXCEPT !.out = bw.out \o r.bytes,
                    !.off = r.off,
                    !.map = r.map,
                    !.err = IF r.err = "none" /\ r.bare THEN "TypeError" ELSE r.err]
         : r \in {writeName(TRUE, bw.size, name, bw.off, bw.map, FALSE)}})

(***************************************************************************)
(* bufio's BufferReader (bio.read(data)).  Every read returns the reader   *)
(* it leaves and the value read.                                           *)
(***************************************************************************)
Reader(data) == [data |-> data, off |-> 0, err |-> "none"]

left(br) == Len(br.data) - br.off

BR_Fail(br, val) ==
  [br |-> IF br.err # "none" THEN br ELSE [br EXCEPT !.err = "EncodingError"],
   val |-> val]

readBytes(br, size) ==
  IF br.err # "none" \/ br.off + size > Len(br.data) THEN BR_Fail(br, <<>>)
  ELSE [br |-> [br EXCEPT !.off = br.off + size],
        val |-> SubSeq(br.data, br.off + 1, br.off + size)]

readU8(br) ==
  IF br.err # "none" \/ br.off + 1 > Len(br.data) THEN BR_Fail(br, 0)
  ELSE [br |-> [br EXCEPT !.off = br.off + 1], val |-> At(br.data, br.off)]

readU16BE(br) ==
  IF br.err # "none" \/ br.off + 2 > Len(br.data) THEN BR_Fail(br, 0)
  ELSE [br |-> [br EXCEPT !.off = br.off + 2],
        val |-> At(br.data, br.off) * 256 + At(br.data, br.off + 1)]

readU32BE(br) ==
  IF br.err # "none" \/ br.off + 4 > Len(br.data) THEN BR_Fail(br, 0)
  ELSE [br |-> [br EXCEPT !.off = br.off + 4],
        val |-> At(br.data, br.off) * 16777216 + At(br.data, br.off + 1) * 65536
                  + At(br.data, br.off + 2) * 256 + At(br.data, br.off + 3)]

readNameBR(br) ==
  IF br.err # "none" THEN BR_Fail(br, <<>>)
  ELSE Only({
         IF r.err # "none" THEN [br |-> [br EXCEPT !.err = r.err], val |-> <<>>]
         ELSE [br |-> [br EXCEPT !.off = r.off], val |-> r.name]
         : r \in {readName(br.data, br.off)}})

\* data.slice(0, len) read from the parent's offset
Child(br, len) == [data |-> SubSeq(br.data, 1, len), off |-> br.off, err |-> "none"]

(***************************************************************************)
(* EDNS options: Option holds a code and an OptionData (UNKNOWNOption or   *)
(* LOCALOption, both opaque octets).                                       *)
(***************************************************************************)
UNKNOWNOption(data) == [kind |-> "UNKNOWNOption", data |-> data]
LOCALOption(data) == [kind |-> "LOCALOption", data |-> data]

\* get code() of the OptionData classes
OptionData_code(option) ==
  IF option.kind = "LOCALOption" THEN options_LOCAL ELSE options_RESERVED

Option(code, option) == [code |-> code, option |-> option]

Option_getSize(opt) == OPTION_FIXED + Len(opt.option.data)

Option_write(bw, opt) ==
  writeBytes(writeU16BE(writeU16BE(bw, opt.code), Len(opt.option.data)),
             opt.option.data)

\* readOption(code, br): the option data behind a 16-bit length
readOption(code, br) ==
  Only({
    IF s.br.err # "none" THEN [br |-> s.br, val |-> UNKNOWNOption(<<>>)]
    ELSE IF s.br.off + s.val > Len(s.br.data)
      THEN [br |-> [s.br EXCEPT !.err = "AssertionError"], val |-> UNKNOWNOption(<<>>)]
    ELSE Only({
         Only({
           [br |-> [s.br EXCEPT !.off = d.br.off, !.err = d.br.err],
            val |-> IF code # options_RESERVED
                         /\ code >= options_LOCALSTART /\ code <= options_LOCALEND
                      THEN LOCALOption(d.val)
                      ELSE UNKNOWNOption(d.val)]
           : d \in {readBytes(cbr, left(cbr))}})
           : cbr \in {Child(s.br, s.br.off + s.val)}})
    : s \in {readU16BE(br)}})

Option_read(br) ==
  Only({
  Only({
    [br |-> o.br, val |-> Option(c.val, o.val)]
    : o \in {readOption(c.val, c.br)}})
    : c \in {readU16BE(br)}})

(***************************************************************************)
(* Record data (RecordData classes).  kind names the class.                *)
(***************************************************************************)
UNKNOWNRecord(data) == [kind |-> "UNKNOWN", data |-> data]
ARecord(address) == [kind |-> "A", address |-> address]
NSRecord(ns) == [kind |-> "NS", ns |-> ns]
MXRecord(preference, mx) == [kind |-> "MX", preference |-> preference, mx |-> mx]
OPTRecord(opts) == [kind |-> "OPT", options |-> opts]
SIGRecord(typeCovered, algorithm, labels, origTTL, expiration, inception, keyTag, signerName, signature) ==
  [kind |-> "SIG", typeCovered |-> typeCovered, algorithm |-> algorithm,
   labels |-> labels, origTTL |-> origTTL, expiration |-> expiration,
   inception |-> inception, keyTag |-> keyTag, signerName |-> signerName,
   signature |-> signature]
\* timeSigned, a 48-bit number, is held as <<its high 16 bits, its low 32 bits>>
TSIGRecord(algorithm, timeSigned, fudge, mac, origID, error, other) ==
  [kind |-> "TSIG", algorithm |-> algorithm, timeSigned |-> timeSigned,
   fudge |-> fudge, mac |-> mac, origID |-> origID, error |-> error, other |-> other]

Sized(size, map) == [err |-> "none", size |-> size, map |-> map]

\* a size computed after a name was sized
PlusSize(k, s) == [s EXCEPT !.size = s.size + k]

RECURSIVE OPT_getSize(_)
OPT_getSize(opts) ==
  IF opts = <<>> THEN 0 ELSE Option_getSize(Head(opts)) + OPT_getSize(Tail(opts))

\* the name the record data holds, for the classes that hold one
RD_name(rd) ==
  CASE rd.kind = "NS" -> rd.ns
    [] rd.kind = "MX" -> rd.mx
    [] rd.kind = "SIG" -> rd.signerName
    [] rd.kind = "TSIG" -> rd.algorithm

\* getSize(map, insert) of MXRecord without the two octets of the preference
RD_getSize_NoPreference(rd, map, insert) ==
  CASE rd.kind = "A" -> Sized(A_SIZE, map)
    [] rd.kind = "OPT" -> Sized(OPT_getSize(rd.options), map)
    [] rd.kind = "UNKNOWN" -> Sized(Len(rd.data), map)
    [] OTHER ->
         PlusSize(CASE rd.kind = "NS" -> 0
                    [] rd.kind = "MX" -> 0
                    [] rd.kind = "SIG" -> SIG_FIXED + Len(rd.signature)
                    [] rd.kind = "TSIG" -> TSIG_FIXED + Len(rd.mac) + Len(rd.other),
                  sizeName(RD_name(rd), map, insert))

\* getSize(map, insert) of the RecordData classes: the fixed octets, the
\* opaque octets and sizeName of the name the data holds
RD_getSize(rd, map, insert) ==
  CASE rd.kind = "A" -> Sized(A_SIZE, map)
    [] rd.kind = "OPT" -> Sized(OPT_getSize(rd.options), map)
    [] rd.kind = "UNKNOWN" -> Sized(Len(rd.data), map)
    [] OTHER ->
         PlusSize(CASE rd.kind = "NS" -> 0
                    [] rd.kind = "MX" -> 2
                    [] rd.kind = "SIG" -> SIG_FIXED + Len(rd.signature)
                    [] rd.kind = "TSIG" -> TSIG_FIXED + Len(rd.mac) + Len(rd.other),
                  sizeName(RD_name(rd), map, insert))

RECURSIVE OPT_write(_, _)
OPT_write(bw, opts) ==
  IF opts = <<>> THEN bw ELSE OPT_write(Option_write(bw, Head(opts)), Tail(opts))

\* the octets SIGRecord.write stores before the signer's name
SIG_head(bw, rd) ==
  writeU16BE(writeU32BE(writeU32BE(writeU32BE(writeU8(writeU8(
    writeU16BE(bw, rd.typeCovered), rd.algorithm), rd.labels), rd.origTTL),
    rd.expiration), rd.inception), rd.keyTag)

\* the octets TSIGRecord.write stores after the algorithm name
TSIG_tail(bw, rd) ==
  writeBytes(writeU16BE(writeU16BE(writeU16BE(writeBytes(writeU16BE(writeU16BE(
    writeU32BE(writeU16BE(bw, rd.timeSigned[1]), rd.timeSigned[2]), rd.fudge),
    Len(rd.mac)), rd.mac), rd.origID), rd.error), Len(rd.other)), rd.other)

\* write(bw, map) of the RecordData classes: what precedes the name the data
\* holds, the name, what follows it
RD_write(bw, rd) ==
  CASE rd.kind = "A" -> writeBytes(bw, rd.address)
    [] rd.kind = "OPT" -> OPT_write(bw, rd.options)
    [] rd.kind = "UNKNOWN" -> writeBytes(bw, rd.data)
    [] OTHER ->
         Only({
           CASE rd.kind = "SIG" -> writeBytes(b, rd.signature)
             [] rd.kind = "TSIG" -> TSIG_tail(b, rd)
             [] OTHER -> b
           : b \in {writeNameBW(CASE rd.kind = "NS" -> bw
                            [] rd.kind = "MX" -> writeU16BE(bw, rd.preference)
                            [] rd.kind = "SIG" -> SIG_head(bw, rd)
                            [] rd.kind = "TSIG" -> bw,
                          RD_name(rd))}})

\* while (br.left()) this.options.push(Option.read(br))
RECURSIVE OPT_read(_, _)
OPT_read(br, opts) ==
  IF br.err # "none" \/ left(br) = 0 THEN [br |-> br, val |-> OPTRecord(opts)]
  ELSE Only({ OPT_read(o.br, Append(opts, o.val))
         : o \in {Option_read(br)}})

SIG_read(br) ==
  Only({
  Only({
  Only({
  Only({
  Only({
  Only({
  Only({
  Only({
  Only({
    [br |-> r9.br,
     val |-> SIGRecord(r1.val, r2.val, r3.val, r4.val, r5.val, r6.val, r7.val,
                       r8.val, r9.val)]
    : r9 \in {readBytes(r8.br, left(r8.br))}})
    : r8 \in {readNameBR(r7.br)}})
    : r7 \in {readU16BE(r6.br)}})
    : r6 \in {readU32BE(r5.br)}})
    : r5 \in {readU32BE(r4.br)}})
    : r4 \in {readU32BE(r3.br)}})
    : r3 \in {readU8(r2.br)}})
    : r2 \in {readU8(r1.br)}})
    : r1 \in {readU16BE(br)}})

TSIG_read(br) ==
  Only({
  Only({
  Only({
  Only({
  Only({
  Only({
  Only({
  Only({
  Only({
  Only({
    [br |-> r10.br,
     val |-> TSIGRecord(r1.val, <<r2.val, r3.val>>, r4.val, r6.val,
                        r7.val, r8.val, r10.val)]
    : r10 \in {readBytes(r9.br, r9.val)}})
    : r9 \in {readU16BE(r8.br)}})
    : r8 \in {readU16BE(r7.br)}})
    : r7 \in {readU16BE(r6.br)}})
    : r6 \in {readBytes(r5.br, r5.val)}})
    : r5 \in {readU16BE(r4.br)}})
    : r4 \in {readU16BE(r3.br)}})
    : r3 \in {readU32BE(r2.br)}})
    : r2 \in {readU16BE(r1.br)}})
    : r1 \in {readNameBR(br)}})

MX_read(br) ==
  Only({
  Only({
    [br |-> n.br, val |-> MXRecord(p.val, n.val)]
    : n \in {readNameBR(p.br)}})
    : p \in {readU16BE(br)}})

\* the switch of read(type, br) on the sub-reader
RD_read(type, cbr) ==
  CASE type = types_A ->
         Only({ [br |-> a.br, val |-> ARecord(a.val)]
           : a \in {readBytes(cbr, A_SIZE)}})
    [] type = types_NS ->
         Only({ [br |-> n.br, val |-> NSRecord(n.val)]
           : n \in {readNameBR(cbr)}})
    [] type = types_MX -> MX_read(cbr)
    [] type = types_OPT -> OPT_read(cbr, <<>>)
    [] type = types_SIG -> SIG_read(cbr)
    [] type = types_TSIG -> TSIG_read(cbr)
    [] OTHER ->
         Only({
           [br |-> d.br, val |-> UNKNOWNRecord(d.val)]
           : d \in {readBytes(cbr, left(cbr))}})

\* read(type, br): the record data behind a 16-bit length; the reader is left
\* where the sub-reader stopped
read(type, br) ==
  Only({
    IF s.br.err # "none" THEN [br |-> s.br, val |-> UNKNOWNRecord(<<>>)]
    ELSE IF s.br.off + s.val > Len(s.br.data)
      THEN [br |-> [s.br EXCEPT !.err = "AssertionError"], val |-> UNKNOWNRecord(<<>>)]
    ELSE Only({
           [br |-> [s.br EXCEPT !.off = r.br.off, !.err = r.br.err], val |-> r.val]
           : r \in {RD_read(type, Child(s.br, s.br.off + s.val))}})
    : s \in {readU16BE(br)}})

(***************************************************************************)
(* Question and Record                                                     *)
(***************************************************************************)
Question(name, type, class) == [name |-> name, type |-> type, class |-> class]

Record(name, type, class, ttl, data) ==
  [name |-> name, type |-> type, class |-> class, ttl |-> ttl, data |-> data]

Question_getSize(qs, map) == PlusSize(QS_FIXED, sizeName(qs.name, map, FALSE))

Question_write(bw, qs) ==
  writeU16BE(writeU16BE(writeNameBW(bw, qs.name), qs.type), qs.class)

\* Question.read on a new Question (type ANY, class IN)
Question_read(br) ==
  Only({
    IF n.br.err # "none" \/ left(n.br) = 0
      THEN [br |-> n.br, val |-> Question(n.val, types_ANY, classes_IN)]
    ELSE Only({
      IF t.br.err # "none" \/ left(t.br) = 0
        THEN [br |-> t.br, val |-> Question(n.val, t.val, classes_IN)]
      ELSE Only({
             [br |-> c.br, val |-> Question(n.val, t.val, c.val)]
             : c \in {readU16BE(t.br)}})
           : t \in {readU16BE(n.br)}})
    : n \in {readNameBR(br)}})

Record_isOPT(rr) == rr.type = types_OPT

Record_isTSIG(rr) == rr.type = types_TSIG /\ rr.class = classes_ANY

Record_isSIG0(rr) ==
  /\ rr.name = <<DOT>>
  /\ rr.type = types_SIG
  /\ rr.class = classes_ANY
  /\ rr.ttl = 0
  /\ rr.data.typeCovered = 0

Record_getSize(rr, map) ==
  Only({
    IF n.err # "none" THEN n
    ELSE Only({
           IF d.err # "none" THEN d
           ELSE Sized(n.size + RR_FIXED + d.size, d.map)
           : d \in {RD_getSize(rr.data, n.map, FALSE)}})
    : n \in {sizeName(rr.name, map, FALSE)}})

\* the rdlength written is this.data.getSize(map, false)
Record_write(bw, rr) ==
  Only({
    IF b4.err # "none" THEN b4
    ELSE Only({
           IF sz.err # "none" THEN [b4 EXCEPT !.err = sz.err]
           ELSE RD_write(writeU16BE([b4 EXCEPT !.map = sz.map], sz.size), rr.data)
           : sz \in {RD_getSize(rr.data, b4.map, FALSE)}})
    : b4 \in {writeU32BE(writeU16BE(writeU16BE(writeNameBW(bw, rr.name), rr.type),
                             rr.class), rr.ttl)}})

Record_read(br) ==
  Only({
  Only({
  Only({
  Only({
  Only({
    [br |-> d.br, val |-> Record(n.val, t.val, c.val, l.val, d.val)]
    : d \in {read(t.val, l.br)}})
    : l \in {readU32BE(c.br)}})
    : c \in {readU16BE(t.br)}})
    : t \in {readU16BE(n.br)}})
    : n \in {readNameBR(br)}})

(***************************************************************************)
(* EDNS                                                                    *)
(***************************************************************************)
EDNS(enabled, size, code, version, eflags, opts) ==
  [enabled |-> enabled, size |-> size, code |-> code, version |-> version,
   flags |-> eflags, options |-> opts]

\* new EDNS(), and what reset() leaves
EDNS_reset == EDNS(FALSE, MAX_UDP_SIZE, 0, 0, 0, <<>>)

EDNS_toRecord(edns) ==
  Record(<<DOT>>, types_OPT, edns.size,
         (edns.code % 256) * 16777216 + (edns.version % 256) * 65536
           + (edns.flags % 65536),
         OPTRecord([k \in 1..Len(edns.options) |->
                      Option(OptionData_code(edns.options[k]), edns.options[k])]))

EDNS_setRecord(rr) ==
  EDNS(TRUE, rr.class, (rr.ttl \div 16777216) % 256, (rr.ttl \div 65536) % 256,
       rr.ttl % 65536,
       [k \in 1..Len(rr.data.options) |-> rr.data.options[k].option])

(***************************************************************************)
(* Message                                                                 *)
(***************************************************************************)
Null == [kind |-> "null"]

Message(id, mflags, opcode, code, question, answer, authority, additional, edns, tsig, sig0) ==
  [id |-> id, flags |-> mflags, opcode |-> opcode, code |-> code,
   question |-> question, answer |-> answer, authority |-> authority,
   additional |-> additional, edns |-> edns, tsig |-> tsig, sig0 |-> sig0,
   size |-> 0, trailing |-> <<>>]

\* new Message()
Message_new == Message(0, 0, 0, 0, <<>>, <<>>, <<>>, <<>>, EDNS_reset, Null, Null)

Message_tc(m) == (m.flags \div flags_TC) % 2 = 1

\* get arcount() without the count of the TSIG record
Message_arcount_NoTsig(m) ==
  Len(m.additional) + (IF m.edns.enabled THEN 1 ELSE 0)
    + (IF m.sig0 # Null THEN 1 ELSE 0)

Message_arcount(m) ==
  Len(m.additional) + (IF m.edns.enabled THEN 1 ELSE 0)
    + (IF m.tsig # Null THEN 1 ELSE 0) + (IF m.sig0 # Null THEN 1 ELSE 0)

Message_bodyLength(m) ==
  Len(m.answer) + Len(m.authority) + Message_arcount(m)

\* the records that follow the additional array: OPT, TSIG, SIG(0)
Message_pseudo(m) ==
  (IF m.edns.enabled THEN <<EDNS_toRecord(m.edns)>> ELSE <<>>)
    \o (IF m.tsig # Null THEN <<m.tsig>> ELSE <<>>)
    \o (IF m.sig0 # Null THEN <<m.sig0>> ELSE <<>>)

\* for (const qs of this.question) size += qs.getSize(map)
RECURSIVE GS_Questions(_, _)
GS_Questions(qss, st) ==
  IF qss = <<>> \/ st.err # "none" THEN st
  ELSE Only({
         IF g.err # "none" THEN [st EXCEPT !.err = g.err]
         ELSE GS_Questions(Tail(qss),
                           [st EXCEPT !.size = st.size + g.size, !.map = g.map])
         : g \in {Question_getSize(Head(qss), st.map)}})

\* the record loops of getSizes over the sections secs, one after the other;
\* full: a record did not fit, at: the section that record is in
RECURSIVE GS_Records(_, _, _, _)
GS_Records(secs, st, udp, max) ==
  IF secs = <<>> \/ st.err # "none" \/ st.full THEN st
  ELSE IF Head(secs) = <<>>
    THEN GS_Records(Tail(secs), [st EXCEPT !.at = st.at + 1], udp, max)
  ELSE Only({
         IF g.err # "none" THEN [st EXCEPT !.err = g.err]
         ELSE IF udp /\ st.size + g.size > max
           THEN [st EXCEPT !.full = TRUE, !.map = g.map]
         ELSE GS_Records(<<Tail(Head(secs))>> \o Tail(secs),
                         [st EXCEPT !.size = st.size + g.size,
                                    !.items = st.items + 1, !.map = g.map,
                                    !.osize = IF st.at < 3 THEN st.size + g.size
                                                ELSE st.osize,
                                    !.oitems = IF st.at < 3 THEN st.items + 1
                                                 ELSE st.oitems],
                         udp, max)
         : g \in {Record_getSize(Head(Head(secs)), st.map)}})

GS_Result(err, size, items, map) ==
  [err |-> err, size |-> size, items |-> items, map |-> map]

\* getSizes(udp, map): sections 1 and 2 (answer, authority) return what was
\* counted so far when a record does not fit, section 3 (additional, OPT,
\* TSIG, SIG(0)) returns osize and oitems
Message_getSizes(m, udp, map) ==
  LET max == IF udp /\ m.edns.enabled /\ m.edns.size >= MAX_UDP_SIZE
               THEN m.edns.size ELSE MAX_UDP_SIZE
  IN Only({
       IF q.err # "none" THEN GS_Result(q.err, q.size, 0, q.map)
       ELSE IF q.size > max THEN GS_Result("AssertionError", q.size, 0, q.map)
       ELSE Only({
              IF r.err # "none" THEN GS_Result(r.err, r.size, r.items, r.map)
              ELSE IF r.full /\ r.at < 3 THEN GS_Result("none", r.size, r.items, r.map)
              ELSE IF r.full THEN GS_Result("none", r.osize, r.oitems, r.map)
              ELSE GS_Result("none", r.size, IF udp THEN r.items ELSE -1, r.map)
              : r \in {GS_Records(<<m.answer, m.authority,
                              m.additional \o Message_pseudo(m)>>,
                            [q EXCEPT !.osize = q.size], udp, max)}})
       : q \in {GS_Questions(m.question,
                       [err |-> "none", size |-> HEADER_SIZE, items |-> 0,
                        map |-> map, full |-> FALSE, at |-> 1,
                        osize |-> 0, oitems |-> 0])}})

\* a flags word that adds the opcode to the stored bits without clearing them
Message_bits_Unmasked(m, truncated) ==
  LET b1 == m.flags + (m.opcode % 16) * OPCODE_SHIFT
      b2 == b1 - (b1 % 16) + (m.code % 16)
  IN IF truncated /\ (b2 \div flags_TC) % 2 = 0 THEN b2 + flags_TC ELSE b2

\* the flags word of write()
Message_bits(m, truncated) ==
  LET opcode0 == (m.flags \div OPCODE_SHIFT) % 16
      b1 == m.flags - opcode0 * OPCODE_SHIFT + (m.opcode % 16) * OPCODE_SHIFT
      b2 == b1 - (b1 % 16) + (m.code % 16)
  IN IF truncated /\ (b2 \div flags_TC) % 2 = 0 THEN b2 + flags_TC ELSE b2

RECURSIVE WR_Questions(_, _)
WR_Questions(bw, qss) ==
  IF qss = <<>> THEN bw ELSE WR_Questions(Question_write(bw, Head(qss)), Tail(qss))

\* the record loops of write(); st.ret: the if (--items === 0) return was taken
RECURSIVE WR_Records(_, _)
WR_Records(rrs, st) ==
  IF rrs = <<>> \/ st.ret \/ st.bw.err # "none" THEN st
  ELSE Only({
         IF b.err # "none" THEN [st EXCEPT !.bw = b]
         ELSE WR_Records(Tail(rrs),
                         [st EXCEPT !.bw = b, !.written = Append(st.written, Head(rrs)),
                                    !.items = st.items - 1,
                                    !.ret = (st.items - 1 = 0)])
         : b \in {Record_write(st.bw, Head(rrs))}})

\* the six 16-bit words of the header
WR_Header(bw, m, bits) ==
  writeU16BE(writeU16BE(writeU16BE(writeU16BE(writeU16BE(writeU16BE(
    bw, m.id), bits), Len(m.question)), Len(m.answer)), Len(m.authority)),
    Message_arcount(m))

\* Message.write(bw, items, map): the writer it leaves, the message it
\* leaves, the flags word and the records it wrote.  The OPT, TSIG and SIG(0)
\* records are those of the message as it is once the additional array was
\* written (code > 0x0f enables EDNS there).
Message_write(m, bw, items0) ==
  LET body == Message_bodyLength(m)
      items == IF items0 = -1 THEN body ELSE items0
      bits == Message_bits(m, items < body)
      late == [m EXCEPT !.edns.enabled = TRUE, !.edns.code = m.code \div 16]
  IN Only({
       IF ar.ret \/ ar.bw.err # "none"
         THEN [bw |-> ar.bw, msg |-> m, bits |-> bits, body |-> body,
               written |-> ar.written]
       ELSE Only({
            Only({
              [bw |-> ps.bw, msg |-> msg1, bits |-> bits, body |-> body,
               written |-> ps.written]
              : ps \in {WR_Records(Message_pseudo(msg1), ar)}})
              : msg1 \in {IF m.code > CODE_MASK THEN late ELSE m}})
       : ar \in {WR_Records(m.answer \o m.authority \o m.additional,
                     [bw |-> WR_Questions(WR_Header(bw, m, bits), m.question),
                      items |-> items, ret |-> FALSE, written |-> <<>>])}})

\* encode(udp) when compress is FALSE, compress(udp) when it is TRUE; the
\* octets of the buffer that write() did not store are left for render()
Message_encode(m, udp, compress) ==
  Only({
  Only({
    IF g.err # "none"
      THEN [err |-> g.err, msg |-> m, out |-> <<>>, size |-> g.size,
            items |-> g.items, bits |-> 0, body |-> Message_bodyLength(m),
            written |-> <<>>, map |-> g.map]
    ELSE Only({
           [err |-> w.bw.err, msg |-> w.msg, out |-> w.bw.out, size |-> g.size,
            items |-> g.items, bits |-> w.bits, body |-> w.body,
            written |-> w.written, map |-> w.bw.map]
           : w \in {Message_write(m, Writer(g.size, map), g.items)}})
    : g \in {Message_getSizes(m, udp, map)}})
    : map \in {IF compress THEN EmptyMap ELSE NullMap}})

\* for (let i = 0; i < qdcount; i++); st.ret: read() returned early
RECURSIVE RD_Questions(_, _)
RD_Questions(st, count) ==
  IF count = 0 \/ st.ret \/ st.br.err # "none" THEN st
  ELSE IF left(st.br) = 0 THEN [st EXCEPT !.ret = TRUE]
  ELSE Only({
         RD_Questions([st EXCEPT !.br = q.br,
                                 !.msg.question = Append(st.msg.question, q.val)],
                      count - 1)
         : q \in {Question_read(st.br)}})

\* where a loop of read() puts the record it read: sec 1 answer, 2 authority,
\* 3 additional
RD_Place(m, sec, rr) ==
  IF sec = 1 THEN [m EXCEPT !.answer = Append(m.answer, rr)]
  ELSE IF sec = 2 THEN [m EXCEPT !.authority = Append(m.authority, rr)]
  ELSE IF Record_isOPT(rr)
    THEN [m EXCEPT !.edns = EDNS_setRecord(rr),
                   !.code = (m.code % 16) + EDNS_setRecord(rr).code * 16]
  ELSE IF Record_isTSIG(rr) THEN [m EXCEPT !.tsig = rr]
  ELSE IF Record_isSIG0(rr) THEN [m EXCEPT !.sig0 = rr]
  ELSE [m EXCEPT !.additional = Append(m.additional, rr)]

\* the three record loops of read(), counts holding ancount, nscount and
\* arcount: the answer and authority loops return at the end of the data
\* only when TC is set, the additional loop always
RECURSIVE RD_Records(_, _, _)
RD_Records(st, sec, counts) ==
  IF counts = <<>> \/ st.ret \/ st.br.err # "none" THEN st
  ELSE IF Head(counts) = 0 THEN RD_Records(st, sec + 1, Tail(counts))
  ELSE IF (sec = 3 \/ Message_tc(st.msg)) /\ left(st.br) = 0
    THEN [st EXCEPT !.ret = TRUE]
  ELSE Only({
         IF r.br.err # "none" THEN [st EXCEPT !.br = r.br]
         ELSE RD_Records([st EXCEPT !.br = r.br, !.msg = RD_Place(st.msg, sec, r.val)],
                         sec, <<Head(counts) - 1>> \o Tail(counts))
         : r \in {Record_read(st.br)}})

\* Message.decode(data): read() on a new Message.  The bindings read from the
\* last line up: r1 id, r2 bits, r3 qdcount, r4 ancount, r5 nscount, r6
\* arcount, m0 the message after the header, qs after the questions, ar
\* after the records
Message_read(data) ==
  Only({
  Only({
  Only({
  Only({
  Only({
  Only({
  Only({
  Only({
  Only({
    IF ar.br.err # "none" THEN [err |-> ar.br.err, msg |-> ar.msg]
    ELSE IF ar.ret THEN [err |-> "none", msg |-> ar.msg]
    ELSE [err |-> "none",
          msg |-> [ar.msg EXCEPT !.size = Len(data),
                                 !.trailing = readBytes(ar.br, left(ar.br)).val]]
    : ar \in {RD_Records(qs, 1, <<r4.val, r5.val, r6.val>>)}})
    : qs \in {RD_Questions([br |-> r6.br, msg |-> m0, ret |-> FALSE], r3.val)}})
    : m0 \in {[Message_new EXCEPT
          !.id = r1.val,
          !.flags = r2.val - ((r2.val \div OPCODE_SHIFT) % 16) * OPCODE_SHIFT
                      - (r2.val % 16),
          !.opcode = (r2.val \div OPCODE_SHIFT) % 16,
          !.code = r2.val % 16]}})
    : r6 \in {readU16BE(r5.br)}})
    : r5 \in {readU16BE(r4.br)}})
    : r4 \in {readU16BE(r3.br)}})
    : r3 \in {readU16BE(r2.br)}})
    : r2 \in {readU16BE(r1.br)}})
    : r1 \in {readU16BE(Reader(data))}})

(***************************************************************************)
(* Bounds of the inputs                                                    *)
(***************************************************************************)
MaxLabels == 2
MaxBuf == 4
MaxChain == 12
MaxData == 3
MaxPad == 2
Slack == 1
MaxCut == 3
MaxChars == 5
MaxStrings == 2

(***************************************************************************)
(* Name codec harness.  A name N is a sequence of labels, each a sequence  *)
(* of octets.  Its presentation form is what readName makes of its plain   *)
(* wire form; that text is sized (sizeName), written into a buffer of that *)
(* size (writeName) and read back (readName).                              *)
(***************************************************************************)
RECURSIVE WireOf(_)
WireOf(labels) ==
  IF labels = <<>> THEN <<0>>
  ELSE <<Len(Head(labels))>> \o Head(labels) \o WireOf(Tail(labels))

SampleOctets == {0, 46, 49, 92, 97}
RunOctets == {0, 46, 92, 97}
RunLens == {1, 32, 63}
CoreLabels == {Repeat(b, k) : b \in RunOctets, k \in RunLens}
PairLabels == {<<a, b>> : a \in SampleOctets, b \in SampleOctets \cup {255}}
               \cup {<<92, 49, 50, 51>>, <<0, 49, 50, 51>>, <<46, 46>>}
ByteLabels == {<<b>> : b \in 0..255}

RECURSIVE LabelSeqs(_)
LabelSeqs(k) ==
  IF k = 0 THEN {<<>>}
  ELSE LET shorter == LabelSeqs(k - 1)
       IN shorter \cup {Append(ls, l) : ls \in {x \in shorter : Len(x) = k - 1},
                                        l \in CoreLabels}

LongNames == {<<Repeat(b, 63), Repeat(b, 63), Repeat(b, 63), Repeat(b, k)>> :
                b \in {97}, k \in {60, 61}}

NameInputs ==
  {ls \in LabelSeqs(MaxLabels) : Len(WireOf(ls)) <= READ_MAX}
    \cup {<<l>> : l \in PairLabels \cup ByteLabels}
    \cup LongNames

\* a harness that has not been started
Idle == [pc |-> "idle"]

NameIdle == nc = Idle
ReadIdle == rnData = <<>> /\ rnOff = 0 /\ rn = [RN_Start(0) EXCEPT !.pc = "idle"]
MsgIdle == msg = Message_new /\ enc = Idle /\ dec = Idle
RecIdle == rh = Idle

\* names of four labels, of plain or escaped octets, that take 255 or 256
\* octets on the wire with the root octet
LimitNames ==
  {<<Repeat(b, 63), Repeat(b, 63), Repeat(b, 63), Repeat(b, k)>> :
     b \in {97, 0, 46}, k \in {READ_MAX - 194, READ_MAX - 193}}

\* a name in wire form, or a pointer to a name in wire form behind it
InitName ==
  /\ nc \in {[pc |-> "start", labels |-> ls, wire |-> WireOf(ls)] : ls \in NameInputs}
            \cup {[pc |-> "start", labels |-> ls, wire |-> <<PTR_BITS, 2>> \o WireOf(ls)] :
                    ls \in LimitNames}
  /\ ReadIdle /\ MsgIdle /\ RecIdle

\* N's presentation form: readName on the plain wire form of N
NC_Present ==
  /\ nc.pc = "start"
  /\ nc' = [pc |-> "text", labels |-> nc.labels, wire |-> nc.wire,
            text |-> readName(nc.wire, 0)]
  /\ UNCHANGED <<readVars, msgVars, recVars>>

\* sizeName(text, null, false): the size of the buffer to allocate
NC_Size ==
  /\ nc.pc = "text"
  /\ nc.text.err = "none"
  /\ nc' = [pc |-> "sized", labels |-> nc.labels, wire |-> nc.wire, text |-> nc.text,
            size |-> sizeName(nc.text.name, NullMap, FALSE)]
  /\ UNCHANGED <<readVars, msgVars, recVars>>

\* writeName(data, text, 0, null, false) on a buffer of the computed size
NC_Write ==
  /\ nc.pc = "sized"
  /\ nc' = [pc |-> "written", labels |-> nc.labels, wire |-> nc.wire, text |-> nc.text,
            size |-> nc.size,
            w |-> IF nc.size.err = "none"
                    THEN writeName(TRUE, nc.size.size, nc.text.name, 0, NullMap, FALSE)
                    ELSE WN_Result(nc.size.err, 0, <<>>, NullMap, 0)]
  /\ UNCHANGED <<readVars, msgVars, recVars>>

\* readName(data, 0) on the buffer writeName filled
NC_Read ==
  /\ nc.pc = "written"
  /\ nc.w.err = "none"
  /\ nc' = [pc |-> "read", labels |-> nc.labels, wire |-> nc.wire, text |-> nc.text,
            size |-> nc.size, w |-> nc.w, back |-> readName(nc.w.bytes, 0)]
  /\ UNCHANGED <<readVars, msgVars, recVars>>

NextName == NC_Present \/ NC_Size \/ NC_Write \/ NC_Read

SpecName == InitName /\ [][NextName]_vars

(***************************************************************************)
(* readName, one loop iteration per step, on every buffer of at most       *)
(* MaxBuf octets over ReadOctets and on chains of pointers, from every     *)
(* start offset.  The loop always takes its next iteration (WF).           *)
(***************************************************************************)
ReadOctets == {0, 1, 2, 64, 97, 192}

RECURSIVE Buffers(_)
Buffers(k) ==
  IF k = 0 THEN {<<>>}
  ELSE LET shorter == Buffers(k - 1)
       IN shorter \cup {Append(b, o) : b \in {x \in shorter : Len(x) = k - 1},
                                       o \in ReadOctets}

\* k pointers, each to the one that follows it, and a root octet at the end
RECURSIVE ForwardChain(_, _)
ForwardChain(k, at) ==
  IF k = 0 THEN <<0>> ELSE <<PTR_BITS, at + 2>> \o ForwardChain(k - 1, at + 2)

\* a root octet, then k pointers, each to the one before it (the first to the root)
RECURSIVE BackwardChain(_)
BackwardChain(k) ==
  IF k = 0 THEN <<0>>
  ELSE BackwardChain(k - 1) \o <<PTR_BITS, IF k = 1 THEN 0 ELSE 2 * k - 3>>

ReadInputs ==
  Buffers(MaxBuf)
    \cup {ForwardChain(k, 0) : k \in 0..MaxChain}
    \cup {BackwardChain(k) : k \in 0..MaxChain}

InitRead == ReadIdle /\ NameIdle /\ MsgIdle /\ RecIdle

\* readName(data, off) is called
RN_Call ==
  /\ rn.pc = "idle"
  /\ rnData' \in ReadInputs
  /\ rnOff' \in 0..Len(rnData')
  /\ rn' = RN_Start(rnOff')
  /\ UNCHANGED <<nameVars, msgVars, recVars>>

\* one iteration of its for (;;) loop
RN_Iterate ==
  /\ rn.pc = "run"
  /\ rn' = RN_Step(rnData, rn)
  /\ UNCHANGED <<rnData, rnOff, nameVars, msgVars, recVars>>

NextRead == RN_Call \/ RN_Iterate

SpecRead == InitRead /\ [][NextRead]_vars /\ WF_vars(RN_Iterate)

(***************************************************************************)
(* Records and messages the codec is run on                                *)
(***************************************************************************)
N_root == <<46>>
N_a == <<97, 46>>
N_ba == <<98, 46, 97, 46>>
N_esc == <<97, 92, 46, 98, 46, 97, 46>>

R_NS == Record(N_a, types_NS, classes_IN, 300, NSRecord(N_ba))
R_NS2 == Record(N_ba, types_NS, classes_IN, 300, NSRecord(N_a))
R_A == Record(N_ba, types_A, classes_IN, 60, ARecord(<<192, 0, 2, 1>>))
R_MX == Record(N_a, types_MX, classes_IN, 3600, MXRecord(10, N_esc))
R_TSIG ==
  Record(N_a, types_TSIG, classes_ANY, 0,
         TSIGRecord(N_ba, <<1, 1>>, 300, <<1, 2, 3>>, 7, 0, <<9>>))
R_SIG0 ==
  Record(N_root, types_SIG, classes_ANY, 0,
         SIGRecord(0, 8, 0, 0, 2, 1, 513, N_a, <<5, 6>>))

\* a NULL record that takes total octets on the wire
BlobOf(total) ==
  Record(N_a, types_NULL, classes_IN, 0,
         UNKNOWNRecord(Repeat(7, total - (Len(N_a) + 1 + RR_FIXED))))

Q_a == Question(N_a, types_NS, classes_IN)
Q_size == Len(N_a) + 1 + QS_FIXED

\* what a message of one question leaves for records below MAX_UDP_SIZE
Room == MAX_UDP_SIZE - HEADER_SIZE - Q_size

E_big == EDNS(TRUE, 2 * MAX_UDP_SIZE, 0, 0, 0, <<>>)
E_opts ==
  EDNS(TRUE, MAX_UDP_SIZE, 0, 0, 32768, <<UNKNOWNOption(<<1, 2>>), LOCALOption(<<3>>)>>)

AnswerChoices ==
  {<<>>, <<R_NS>>, <<BlobOf(Room \div 2), BlobOf((Room \div 2) + 1)>>,
   <<R_NS, BlobOf(Room - (Len(N_a) + 1 + RR_FIXED + Len(N_ba) + 1))>>}
    \cup {<<BlobOf(Room + d)>> : d \in (0 - Slack)..Slack}

TruncInputs ==
  {Message(1, f, 0, 0, <<Q_a>>, an, ns, ar, ed, ts, Null) :
     f \in {0, flags_TC}, an \in AnswerChoices, ns \in {<<>>, <<R_NS2>>},
     ar \in {<<>>, <<R_A>>, <<BlobOf(Room)>>}, ed \in {EDNS_reset, E_big},
     ts \in {Null, R_TSIG}}

CodecInputs ==
  {Message(65535, f, 5, code, qs, an, <<>>, ar,
           IF ed.enabled THEN [ed EXCEPT !.code = code \div 16] ELSE ed, ts, sg) :
     f \in {0, 33792}, code \in {0, 3, 16, 23}, qs \in {<<>>, <<Q_a>>},
     an \in {<<>>, <<R_MX>>}, ar \in {<<>>, <<R_A>>},
     ed \in {EDNS_reset, E_big, E_opts}, ts \in {Null, R_TSIG}, sg \in {Null, R_SIG0}}

\* a query of one question under every kind of stored flags word: AA alone
\* (1024), AA with the opcode and rcode bits set as well (31759), and every
\* flag but TC (34288)
HeaderInputs ==
  {Message(4660, f, op, code, <<Q_a>>, <<>>, <<>>, <<>>, EDNS_reset, Null, Null) :
     f \in {1024, 31759, 34288}, op \in {0, 5, 15}, code \in {0, 3, 15}}

MsgInputs == TruncInputs \cup CodecInputs \cup HeaderInputs

\* what the octets of the buffer that write() did not store hold: bio.write
\* does not clear the buffer it allocates
FillOctets == {0, 255}

Init ==
  /\ msg \in MsgInputs
  /\ enc = Idle
  /\ dec = Idle
  /\ NameIdle /\ ReadIdle /\ RecIdle

\* msg.encode(udp) or msg.compress(udp).  When write() stored fewer octets
\* than the buffer holds, render() either returns the buffer as it is or
\* refuses it.
M_Call(udp, compress) ==
  /\ enc.pc = "idle"
  /\ \E e \in {Message_encode(msg, udp, compress)} :
       \E fill \in IF e.err = "none" /\ Len(e.out) < e.size THEN FillOctets ELSE {0},
          refused \in IF e.err = "none" /\ Len(e.out) < e.size THEN BOOLEAN
                       ELSE {FALSE} :
         /\ msg' = e.msg
         /\ enc' = [pc |-> "encoded", compress |-> compress, udp |-> udp, m0 |-> msg,
                    held |-> msg.answer \o msg.authority \o msg.additional
                               \o Message_pseudo(msg),
                    err |-> IF refused THEN "EncodingError" ELSE e.err,
                    bytes |-> IF e.err = "none" /\ ~refused
                                THEN e.out \o Repeat(fill, e.size - Len(e.out))
                                ELSE <<>>,
                    items |-> e.items, body |-> e.body, written |-> e.written,
                    map |-> e.map]
  /\ UNCHANGED <<dec, nameVars, readVars, recVars>>

M_Encode == \E udp \in BOOLEAN : M_Call(udp, FALSE)

M_Compress == \E udp \in BOOLEAN : M_Call(udp, TRUE)

\* Message.decode on the octets the call returned
M_Decode ==
  /\ enc.pc = "encoded"
  /\ enc.err = "none"
  /\ dec.pc = "idle"
  /\ dec' = [pc |-> "decoded"] @@ Message_read(enc.bytes)
  /\ UNCHANGED <<msg, enc, nameVars, readVars, recVars>>

Next == M_Encode \/ M_Compress \/ M_Decode

Spec == Init /\ [][Next]_vars

(***************************************************************************)
(* One record through Record.getSize, Record.write and Record.read, with   *)
(* no compression map, an empty one and one that knows the names           *)
(***************************************************************************)
SeededMap == MapSet(MapSet(EmptyMap, N_a, HEADER_SIZE), N_ba, 2 * HEADER_SIZE)

RecordInputs ==
  {R_NS, R_NS2, R_A, R_MX, R_TSIG, R_SIG0, EDNS_toRecord(E_big), EDNS_toRecord(E_opts),
   Record(N_esc, types_NS, classes_IN, 1, NSRecord(N_root))}
    \cup {Record(N_a, t, classes_IN, 0, UNKNOWNRecord(Repeat(7, k))) :
            t \in {types_NULL, 65280}, k \in 0..MaxData}

InitRecord ==
  /\ rh \in {[pc |-> "start", rr |-> rr, map |-> map] :
               rr \in RecordInputs, map \in {NullMap, EmptyMap, SeededMap}}
  /\ NameIdle /\ ReadIdle /\ MsgIdle

\* rr.getSize(map)
RR_GetSize ==
  /\ rh.pc = "start"
  /\ rh' = [pc |-> "sized", rr |-> rh.rr, map |-> rh.map,
            size |-> Record_getSize(rh.rr, rh.map)]
  /\ UNCHANGED <<nameVars, readVars, msgVars>>

\* rr.write(bw, map) on a writer of that size
RR_Write ==
  /\ rh.pc = "sized"
  /\ rh.size.err = "none"
  /\ \E map \in {rh.map, rh.size.map} :
       rh' = [pc |-> "written", rr |-> rh.rr, map |-> rh.map, size |-> rh.size,
              w |-> Record_write(Writer(rh.size.size, map), rh.rr)]
  /\ UNCHANGED <<nameVars, readVars, msgVars>>

\* the octets of a record with pad more octets of record data than its type
\* needs, and the record that follows it
Padded(out, rdStart, pad, follower) ==
  SubSeq(out, 1, rdStart - 2)
    \o <<(((Len(out) - rdStart) + pad) \div 256) % 256, ((Len(out) - rdStart) + pad) % 256>>
    \o SubSeq(out, rdStart + 1, Len(out)) \o Repeat(0, pad) \o follower

\* the octets Record.write stores for R_A
Follower == Record_write(Writer(2 * MAX_UDP_SIZE, NullMap), R_A).out

\* Record.read twice on those octets
RR_Read ==
  /\ rh.pc = "written"
  /\ rh.w.err = "none"
  /\ \E pad \in 0..MaxPad, rdStart \in {readName(rh.w.out, 0).off + RR_FIXED} :
       \E first \in {Record_read(Reader(Padded(rh.w.out, rdStart, pad, Follower)))} :
         rh' = [pc |-> "read", rr |-> rh.rr, map |-> rh.map, size |-> rh.size,
                w |-> rh.w, pad |-> pad, rdStart |-> rdStart,
                rdlength |-> (Len(rh.w.out) - rdStart) + pad,
                first |-> first, second |-> Record_read(first.br)]
  /\ UNCHANGED <<nameVars, readVars, msgVars>>

NextRecord == RR_GetSize \/ RR_Write \/ RR_Read

SpecRecord == InitRecord /\ [][NextRecord]_vars

(***************************************************************************)
(* Message.decode on octets that no encode call of this library returned:  *)
(* several OPT records in the additional section, a TSIG record that is    *)
(* not the last record, counts in the header that promise more records     *)
(* than the octets hold, and octets that end in the middle of a record.    *)
(* The octets are those of a message whose arrays hold the records, with   *)
(* the last record left out (drop) and cut octets taken from the end.      *)
(***************************************************************************)
\* m without the last record of its last array that holds one
WithoutLast(m) ==
  IF m.additional # <<>>
    THEN [m EXCEPT !.additional = SubSeq(m.additional, 1, Len(m.additional) - 1)]
  ELSE IF m.authority # <<>>
    THEN [m EXCEPT !.authority = SubSeq(m.authority, 1, Len(m.authority) - 1)]
  ELSE [m EXCEPT !.answer = SubSeq(m.answer, 1, Len(m.answer) - 1)]

\* the header of m in front of the questions and records of body
WireOctets(m, body) ==
  SubSeq(Message_encode(m, FALSE, FALSE).out, 1, HEADER_SIZE)
    \o SubSeq(Message_encode(body, FALSE, FALSE).out, HEADER_SIZE + 1,
              Len(Message_encode(body, FALSE, FALSE).out))

\* option codes: RESERVED, an unassigned code, the ends of the LOCAL range and
\* a code inside it, and the last code
OptCodes ==
  {options_RESERVED, 100, options_LOCALSTART, options_LOCALSTART + 1,
   options_LOCALEND, 65535}

\* an OPT record with one option of the code
OptWith(code) ==
  Record(<<DOT>>, types_OPT, 2 * MAX_UDP_SIZE, 0,
         OPTRecord(<<Option(code, UNKNOWNOption(<<7, 8>>))>>))

AdditionalChoices ==
  {<<>>, <<R_A>>, <<EDNS_toRecord(E_big)>>,
   <<EDNS_toRecord([E_big EXCEPT !.code = 1]), EDNS_toRecord(E_opts)>>,
   <<EDNS_toRecord(E_opts), R_A, EDNS_toRecord(E_big)>>,
   <<R_TSIG, R_A>>, <<R_A, R_TSIG>>, <<R_SIG0>>}
  \cup {<<OptWith(code)>> : code \in OptCodes}

InitWire ==
  /\ dec \in {[pc |-> "wire", cut |-> cut, drop |-> drop,
                m |-> Message(4660, f, 0, 3, <<Q_a>>, an, ns, ar, EDNS_reset, Null, Null)] :
                cut \in 0..MaxCut, drop \in BOOLEAN, f \in {0, flags_TC},
                an \in {<<>>, <<R_NS>>, <<R_NS, R_MX>>}, ns \in {<<>>, <<R_NS2>>},
                ar \in AdditionalChoices}
  /\ msg = Message_new
  /\ enc = Idle
  /\ NameIdle /\ ReadIdle /\ RecIdle

\* the octets handed to Message.decode
W_Octets ==
  /\ dec.pc = "wire"
  /\ dec.drop => Message_bodyLength(dec.m) > 0
  /\ \E all \in {WireOctets(dec.m, IF dec.drop THEN WithoutLast(dec.m) ELSE dec.m)} :
       /\ Len(all) - dec.cut >= HEADER_SIZE
       /\ dec' = [pc |-> "octets", cut |-> dec.cut, drop |-> dec.drop, m |-> dec.m,
                  data |-> SubSeq(all, 1, Len(all) - dec.cut)]
  /\ UNCHANGED <<msg, enc, nameVars, readVars, recVars>>

\* Message.decode(data)
W_Decode ==
  /\ dec.pc = "octets"
  /\ dec' = [pc |-> "parsed", cut |-> dec.cut, drop |-> dec.drop, m |-> dec.m,
             data |-> dec.data, r |-> Message_read(dec.data)]
  /\ UNCHANGED <<msg, enc, nameVars, readVars, recVars>>

\* the message decoded is encoded again
W_Encode ==
  /\ dec.pc = "parsed"
  /\ dec.r.err = "none"
  /\ enc.pc = "idle"
  /\ \E e \in {Message_encode(dec.r.msg, FALSE, FALSE)} :
       /\ msg' = e.msg
       /\ enc' = [pc |-> "reencoded", m0 |-> dec.r.msg, err |-> e.err, bytes |-> e.out,
                  written |-> e.written]
  /\ UNCHANGED <<dec, nameVars, readVars, recVars>>

NextWire == W_Octets \/ W_Decode \/ W_Encode

SpecWire == InitWire /\ [][NextWire]_vars

(***************************************************************************)
(* Text harness.  writeName is handed a presentation name as a caller      *)
(* types it: sizeName(text) gives the size of the buffer, writeName fills  *)
(* a buffer of that size.                                                  *)
(***************************************************************************)
TextChars == {DOT, BACKSLASH, ZERO_CHAR, 97}

RECURSIVE Texts(_)
Texts(k) ==
  IF k = 0 THEN {<<>>}
  ELSE LET shorter == Texts(k - 1)
       IN shorter \cup {Append(t, c) : t \in {x \in shorter : Len(x) = k - 1},
                                       c \in TextChars}

\* labels of 63 and of 64 octets, plain or escaped, alone or after a label
LongTexts ==
  {pre \o Repeat(97, k) \o esc \o <<DOT>> :
     pre \in {<<>>, <<97, DOT>>},
     k \in {LABEL_LIMIT - 2, LABEL_LIMIT - 1},
     esc \in {<<97>>, <<BACKSLASH, DOT>>, <<BACKSLASH, ZERO_CHAR, ZERO_CHAR, ZERO_CHAR>>}}

TextInputs == Texts(MaxChars) \cup LongTexts

InitText ==
  /\ nc \in {[pc |-> "typed", text |-> t] : t \in TextInputs}
  /\ ReadIdle /\ MsgIdle /\ RecIdle

\* sizeName(text, null, false)
NT_Size ==
  /\ nc.pc = "typed"
  /\ nc' = [pc |-> "measured", text |-> nc.text,
            size |-> sizeName(nc.text, NullMap, FALSE)]
  /\ UNCHANGED <<readVars, msgVars, recVars>>

\* writeName(Buffer.alloc(size), text, 0, null, false)
NT_Write ==
  /\ nc.pc = "measured"
  /\ nc.size.err = "none"
  /\ nc' = [pc |-> "filled", text |-> nc.text, size |-> nc.size,
            w |-> writeName(TRUE, nc.size.size, nc.text, 0, NullMap, FALSE)]
  /\ UNCHANGED <<readVars, msgVars, recVars>>

NextText == NT_Size \/ NT_Write

SpecText == InitText /\ [][NextText]_vars

(***************************************************************************)
(* Presentation form of a record.  Text is a sequence of character codes.  *)
(* The schema of a type is the ordered list of its fields and their kinds; *)
(* of the kinds, name, u16 and txt are modelled, and of the types NS, MX   *)
(* and TXT.  None of their schemas has a character-string field, so the    *)
(* quoted-string state of the splitter is never entered.                   *)
(***************************************************************************)
HINFORecord(cpu, os) == [kind |-> "HINFO", cpu |-> cpu, os |-> os]
TXTRecord(txt) == [kind |-> "TXT", txt |-> txt]

NSSchema == <<[name |-> "ns", type |-> "NAME"]>>
MXSchema == <<[name |-> "preference", type |-> "U16"], [name |-> "mx", type |-> "NAME"]>>
TXTSchema == <<[name |-> "txt", type |-> "TXT"]>>
HINFOSchema == <<[name |-> "cpu", type |-> "CHAR"], [name |-> "os", type |-> "CHAR"]>>

types_TXT == 16
types_HINFO == 13

\* schema.records[type]
SchemaOf(type) ==
  IF type = types_NS THEN NSSchema
  ELSE IF type = types_MX THEN MXSchema
  ELSE IF type = types_HINFO THEN HINFOSchema
  ELSE TXTSchema

\* type & 0x80: the field takes the rest of the line
ToEnd(type) == type = "TXT"

Blank(ch) == ch \in {SPACE, 9, 13, 10}

RECURSIVE Join(_, _)
Join(parts, sep) ==
  IF parts = <<>> THEN <<>>
  ELSE IF Len(parts) = 1 THEN parts[1]
  ELSE parts[1] \o sep \o Join(Tail(parts), sep)

\* Number.prototype.toString(10)
RECURSIVE Decimal(_)
Decimal(n) ==
  IF n < 10 THEN <<ZERO_CHAR + n>> ELSE Decimal(n \div 10) \o <<ZERO_CHAR + (n % 10)>>

RECURSIVE DigitsValue(_)
DigitsValue(s) ==
  IF s = <<>> THEN 0
  ELSE 10 * DigitsValue(SubSeq(s, 1, Len(s) - 1)) + (s[Len(s)] - ZERO_CHAR)

\* the digits a are at most the digits b, both of one length
RECURSIVE DigitsLE(_, _)
DigitsLE(a, b) ==
  IF a = <<>> THEN TRUE
  ELSE IF a[1] # b[1] THEN a[1] < b[1]
  ELSE DigitsLE(Tail(a), Tail(b))

\* the digits of 0xffff and of 0xffffffff
U16_LIMIT == <<54, 53, 53, 51, 53>>
U32_LIMIT == <<52, 50, 57, 52, 57, 54, 55, 50, 57, 53>>

\* util.parseU16, util.parseU32: a decimal number of at most the limit
parseUint(str, limit) ==
  IF str # <<>> /\ (\A k \in 1..Len(str) : isDigit(str[k]))
       /\ (Len(str) < Len(limit) \/ (Len(str) = Len(limit) /\ DigitsLE(str, limit)))
    THEN [err |-> "none", val |-> DigitsValue(str)]
    ELSE [err |-> "Error", val |-> -1]

\* the pieces of the text between the positions in breaks that are not empty
PieceEnd(str, breaks, p) ==
  CHOOSE q \in (p + 1)..(Len(str) + 1) :
    /\ q \in breaks \/ q = Len(str) + 1
    /\ \A r \in (p + 1)..(q - 1) : r \notin breaks

Pieces(str, breaks) ==
  Only({
    [k \in 1..Cardinality(starts) |->
       Only({SubSeq(str, p + 1, PieceEnd(str, breaks, p) - 1)
             : p \in {CHOOSE p \in starts : Cardinality({q \in starts : q <= p}) = k}})]
    : starts \in {{p \in breaks \cup {0} : p < Len(str) /\ p + 1 \notin breaks}}})

\* util.splitSP: the pieces of the text between runs of blanks
splitSP(str) == Pieces(str, {i \in 1..Len(str) : Blank(str[i])})

\* the mnemonics of the types and of the class
typeToString(type) ==
  IF type = types_NS THEN <<78, 83>>
  ELSE IF type = types_MX THEN <<77, 88>>
  ELSE <<84, 88, 84>>

stringToType(str) ==
  IF \E t \in {types_NS, types_MX, types_TXT} : typeToString(t) = str
    THEN [err |-> "none",
          val |-> CHOOSE t \in {types_NS, types_MX, types_TXT} : typeToString(t) = str]
    ELSE [err |-> "Error", val |-> -1]

classToString(class) == <<73, 78>>

stringToClass(str) ==
  IF str = <<73, 78>> THEN [err |-> "none", val |-> classes_IN]
  ELSE [err |-> "Error", val |-> -1]

\* util.isFQDN, util.fqdn, util.isName
util_isFQDN(s) == s # <<>> /\ s[Len(s)] = DOT
util_fqdn(s) == IF ~util_isFQDN(s) THEN s ELSE SubSeq(s, 1, Len(s) - 1)
util_isName(s) == sizeName(util_fqdn(s), NullMap, FALSE).err = "none"

\* encoding.isName: the text is a name writeName takes
encoding_isName(s) == sizeName(s, NullMap, FALSE).err = "none"

\* encoding.isString: a character-string of printable characters
encoding_isString(s) == \A k \in 1..Len(s) : s[k] >= SPACE /\ s[k] <= 126

quote(str) == <<QUOTE>> \o str \o <<QUOTE>>

unquote(str) ==
  IF Len(str) >= 2 /\ str[1] = QUOTE /\ str[Len(str)] = QUOTE
       /\ encoding_isString(SubSeq(str, 2, Len(str) - 1))
    THEN [err |-> "none", val |-> SubSeq(str, 2, Len(str) - 1)]
    ELSE [err |-> "AssertionError", val |-> <<>>]

isDigits(str, off) ==
  /\ off + 3 <= Len(str)
  /\ isDigit(At(str, off)) /\ isDigit(At(str, off + 1)) /\ isDigit(At(str, off + 2))

\* readType, case TXT: the quoted strings of the text
RECURSIVE TXT_Scan(_, _, _, _)
TXT_Scan(str, i, last, txts) ==
  IF i >= Len(str)
    THEN (IF last # -1 THEN [err |-> "Error", val |-> txts] ELSE [err |-> "none", val |-> txts])
  ELSE IF At(str, i) = BACKSLASH
    THEN TXT_Scan(str, IF isDigits(str, i + 1) THEN i + 4 ELSE i + 2, last, txts)
  ELSE IF At(str, i) # QUOTE THEN TXT_Scan(str, i + 1, last, txts)
  ELSE IF last = -1 THEN TXT_Scan(str, i + 1, i, txts)
  ELSE IF unquote(SubSeq(str, last + 1, i + 1)).err # "none"
    THEN [err |-> "AssertionError", val |-> txts]
  ELSE TXT_Scan(str, i + 1, -1, Append(txts, unquote(SubSeq(str, last + 1, i + 1)).val))

readType(type, str) ==
  IF type = "NAME"
    THEN (IF encoding_isName(str) THEN [err |-> "none", val |-> str]
          ELSE [err |-> "AssertionError", val |-> str])
  ELSE IF type = "U16" THEN parseUint(str, U16_LIMIT)
  ELSE IF type = "CHAR" THEN unquote(str)
  ELSE TXT_Scan(str, 0, -1, <<>>)

writeType(type, value) ==
  IF type = "NAME" THEN value
  ELSE IF type = "U16" THEN Decimal(value)
  ELSE IF type = "CHAR" THEN quote(value)
  ELSE Join([k \in 1..Len(value) |-> quote(value[k])], <<SPACE>>)

\* toString(rd, schema)
schema_toString(rd, schema) ==
  Join([k \in 1..Len(schema) |-> writeType(schema[k].type, rd[schema[k].name])], <<SPACE>>)

FS_Start ==
  [state |-> "SKIP", index |-> 0, start |-> -1, end |-> -1, parts |-> <<>>,
   err |-> "none", message |-> "", stop |-> FALSE, i |-> 0]

FS_Throw(st, err, message) == [st EXCEPT !.err = err, !.message = message]

\* parts.push(part); start = -1; end = -1; state = STATE_SKIP
FS_Push(st, part) ==
  [st EXCEPT !.parts = Append(st.parts, part), !.start = -1, !.end = -1,
             !.state = "SKIP"]

\* case STATE_SKIP; "Expected quote." stands for the message 'Expected `"`.'
FS_Skip(st, str, i, schema) ==
  IF Blank(At(str, i)) THEN st
  ELSE IF At(str, i) = SEMICOLON THEN [st EXCEPT !.stop = TRUE]
  ELSE IF st.start # -1 \/ st.end # -1 THEN FS_Throw(st, "AssertionError", "")
  ELSE IF st.index = Len(schema)
    THEN FS_Throw(st, "Error", "Too many fields for record.")
  ELSE Only({
    IF type = "CHAR" /\ At(str, i) # QUOTE
      THEN FS_Throw(begun, "Error", "Expected quote.")
    ELSE [begun EXCEPT !.state = IF type = "CHAR" THEN "CHAR"
                                 ELSE IF ToEnd(type) THEN "TOEND" ELSE "SEEK"]
    : type \in {schema[st.index + 1].type},
      begun \in {[st EXCEPT !.index = st.index + 1, !.start = i, !.end = i + 1]}})

\* case STATE_SEEK without its case 0x3b: a ';' is one more character of the token
FS_Seek_NoComment(st, str, i) ==
  IF Blank(At(str, i))
    THEN IF st.start = -1 \/ st.end # i THEN FS_Throw(st, "AssertionError", "")
         ELSE FS_Push(st, SubSeq(str, st.start + 1, st.end))
  ELSE [st EXCEPT !.end = i + 1]

\* case STATE_SEEK
FS_Seek(st, str, i) ==
  IF Blank(At(str, i))
    THEN IF st.start = -1 \/ st.end # i THEN FS_Throw(st, "AssertionError", "")
         ELSE FS_Push(st, SubSeq(str, st.start + 1, st.end))
  ELSE IF At(str, i) = SEMICOLON THEN [st EXCEPT !.stop = TRUE]
  ELSE [st EXCEPT !.end = i + 1]

\* case STATE_TOEND
FS_ToEnd(st, str, i) ==
  IF Blank(At(str, i)) THEN st
  ELSE IF At(str, i) = SEMICOLON THEN [st EXCEPT !.stop = TRUE]
  ELSE [st EXCEPT !.end = i + 1]

\* case STATE_CHAR; the backslash case moves i past what it escapes
FS_Char(st, str, i) ==
  IF Blank(At(str, i)) THEN [st EXCEPT !.end = i + 1]
  ELSE IF At(str, i) = BACKSLASH
    THEN Only({[st EXCEPT !.i = j, !.end = j + 1]
               : j \in {IF isDigits(str, i + 1) THEN i + 3 ELSE i + 1}})
  ELSE IF At(str, i) = QUOTE
    THEN IF st.start = -1 \/ st.end # i THEN FS_Throw(st, "AssertionError", "")
         ELSE FS_Push(st, SubSeq(str, st.start + 1, st.end + 1))
  ELSE [st EXCEPT !.end = i + 1]

\* one turn of the loop of fromString(rd, schema, str) that splits the text
FS_Step(st, str, i, schema) ==
  IF st.state = "SKIP" THEN FS_Skip(st, str, i, schema)
  ELSE IF st.state = "SEEK" THEN FS_Seek(st, str, i)
  ELSE IF st.state = "TOEND" THEN FS_ToEnd(st, str, i)
  ELSE FS_Char(st, str, i)

RECURSIVE FS_Loop(_, _, _, _)
FS_Loop(st, str, i, schema) ==
  IF i >= Len(str) \/ st.stop \/ st.err # "none" THEN st
  ELSE Only({FS_Loop(n, str, n.i + 1, schema)
             : n \in {FS_Step([st EXCEPT !.i = i], str, i, schema)}})

\* the first half of fromString(rd, schema, str): the text split into parts
FS_Split(schema, str) ==
  Only({
    IF st.err # "none" THEN st
    ELSE IF st.state = "CHAR" THEN FS_Throw(st, "Error", "Unclosed double quote.")
    ELSE IF st.index # Len(schema) THEN FS_Throw(st, "Error", "Missing data for record.")
    ELSE IF st.start # -1 /\ st.end = -1 THEN FS_Throw(st, "AssertionError", "")
    ELSE Only({
      IF Len(parts) # Len(schema) THEN FS_Throw(st, "AssertionError", "")
      ELSE [st EXCEPT !.parts = parts]
      : parts \in {IF st.start # -1
                     THEN Append(st.parts, SubSeq(str, st.start + 1, st.end))
                     ELSE st.parts}})
    : st \in {FS_Loop(FS_Start, str, 0, schema)}})

\* the second loop of fromString: each part read as its field's kind
FS_Fields(schema, parts) == [k \in 1..Len(schema) |-> readType(schema[k].type, parts[k])]

FS_Data(type, vals) ==
  IF type = types_NS THEN NSRecord(vals[1].val)
  ELSE IF type = types_MX THEN MXRecord(vals[1].val, vals[2].val)
  ELSE IF type = types_HINFO THEN HINFORecord(vals[1].val, vals[2].val)
  ELSE TXTRecord(vals[1].val)

\* RD.fromString(str): fromString(rd, schema, str)
schema_fromString(type, str) ==
  Only({
    IF st.err # "none" THEN [err |-> st.err, data |-> Null]
    ELSE Only({
         IF \E k \in 1..Len(vals) : vals[k].err # "none"
           THEN [err |-> vals[CHOOSE k \in 1..Len(vals) : vals[k].err # "none"].err,
                 data |-> Null]
           ELSE [err |-> "none", data |-> FS_Data(type, vals)]
         : vals \in {FS_Fields(SchemaOf(type), st.parts)}})
    : st \in {FS_Split(SchemaOf(type), str)}})

\* Record.toString() of a record of a registered type
Record_toString(rr) ==
  Join(<<rr.name, Decimal(rr.ttl), classToString(rr.class), typeToString(rr.type),
         schema_toString(rr.data, SchemaOf(rr.type))>>, <<SPACE>>)

InsertAt(parts, k, part) == SubSeq(parts, 1, k - 1) \o <<part>> \o SubSeq(parts, k, Len(parts))

LineError(err) == [err |-> err, rr |-> Null]

\* Record.fromString(str); a line in the generic \# form is not followed
Record_fromString(str) ==
  Only({
    IF Len(parts0) < 2 THEN LineError("AssertionError")
    ELSE IF ~util_isName(parts0[1]) THEN LineError("Error")
    ELSE Only({
      Only({
         IF Len(parts2) < 4 THEN LineError("AssertionError")
         ELSE IF stringToType(parts2[4]).err # "none" THEN LineError("Error")
         ELSE IF Len(parts2) >= 6 /\ parts2[5] = <<BACKSLASH, 35>> THEN LineError("generic")
         ELSE Only({
              IF rd.err # "none" THEN LineError(rd.err)
              ELSE [err |-> "none",
                    rr |-> Record(parts0[1], stringToType(parts2[4]).val,
                                  IF Len(parts1) >= 3 /\ stringToClass(parts1[3]).err = "none"
                                    THEN stringToClass(parts1[3]).val ELSE classes_IN,
                                  IF parseUint(parts0[2], U32_LIMIT).err = "none"
                                    THEN parseUint(parts0[2], U32_LIMIT).val ELSE 0,
                                  rd.data)]
              : rd \in {schema_fromString(stringToType(parts2[4]).val,
                                          Join(SubSeq(parts2, 5, Len(parts2)), <<SPACE>>))}})
         : parts2 \in {IF Len(parts1) >= 3 /\ stringToClass(parts1[3]).err = "none"
                         THEN parts1 ELSE InsertAt(parts1, 3, <<73, 78>>)}})
      : parts1 \in {IF parseUint(parts0[2], U32_LIMIT).err = "none"
                      THEN parts0 ELSE InsertAt(parts0, 2, <<ZERO_CHAR>>)}})
    : parts0 \in {splitSP(str)}})

N_example == <<101, 120, 97, 109, 112, 108, 101, 46, 99, 111, 109, 46>>
N_mail == <<109, 97, 105, 108, 46>> \o N_example
N_spaced == <<97, BACKSLASH, SPACE, 98, 46>>

TxtStrings == {<<97>>, <<97, SPACE, 98>>, <<>>}

RECURSIVE TxtLists(_)
TxtLists(k) ==
  IF k = 0 THEN {<<>>}
  ELSE LET shorter == TxtLists(k - 1)
       IN shorter \cup {Append(l, s) : l \in {x \in shorter : Len(x) = k - 1},
                                       s \in TxtStrings}

LineInputs ==
  {Record(n, types_NS, classes_IN, ttl, NSRecord(d)) :
     n \in {N_example, N_root, N_esc}, ttl \in {0, 3600}, d \in {N_mail, N_spaced, N_root}}
  \cup {Record(n, types_MX, classes_IN, ttl, MXRecord(p, d)) :
     n \in {N_example, N_spaced}, ttl \in {0, 3600, 2147483647}, p \in {0, 10, 65535},
     d \in {N_mail, N_esc}}
  \cup {Record(n, types_TXT, classes_IN, 3600, TXTRecord(l)) :
     n \in {N_example}, l \in TxtLists(MaxStrings)}

InitLine ==
  /\ rh \in {[pc |-> "record", rr |-> rr] : rr \in LineInputs}
  /\ NameIdle /\ ReadIdle /\ MsgIdle

\* rr.toString()
L_Print ==
  /\ rh.pc = "record"
  /\ rh' = [pc |-> "line", rr |-> rh.rr, line |-> Record_toString(rh.rr)]
  /\ UNCHANGED <<nameVars, readVars, msgVars>>

\* Record.fromString(line)
L_Parse ==
  /\ rh.pc = "line"
  /\ rh' = [pc |-> "reparsed", rr |-> rh.rr, line |-> rh.line,
            back |-> Record_fromString(rh.line)]
  /\ UNCHANGED <<nameVars, readVars, msgVars>>

NextLine == L_Print \/ L_Parse

SpecLine == InitLine /\ [][NextLine]_vars

(***************************************************************************)
(* Transcript of a message: Message.toString and Message.fromString.  The  *)
(* messages modelled hold records of the types of the record harness and   *)
(* LOCAL options, and neither tsig nor sig0.                                *)
(***************************************************************************)
NEWLINE == 10
SEMI == <<SEMICOLON>>
COMMA == 44

\* ';; ->>HEADER<<-', ';; flags:', ';; ' and the section headings
T_HEADER == <<59, 59, 32, 45, 62, 62, 72, 69, 65, 68, 69, 82, 60, 60, 45>>
T_FLAGS == <<59, 59, 32, 102, 108, 97, 103, 115, 58>>
T_ANY == <<59, 59, 32>>
T_OPT == <<59, 59, 32, 79, 80, 84, 32, 80, 83, 69, 85, 68, 79, 83, 69, 67, 84, 73, 79, 78, 58>>
T_EDNS == <<59, 32, 69, 68, 78, 83, 58, 32, 118, 101, 114, 115, 105, 111, 110, 58, 32>>
T_QUESTION == <<59, 59, 32, 81, 85, 69, 83, 84, 73, 79, 78, 32, 83, 69, 67, 84, 73, 79, 78, 58>>
T_ANSWER == <<59, 59, 32, 65, 78, 83, 87, 69, 82, 32, 83, 69, 67, 84, 73, 79, 78, 58>>
T_AUTHORITY == <<59, 59, 32, 65, 85, 84, 72, 79, 82, 73, 84, 89, 32, 83, 69, 67, 84, 73, 79, 78, 58>>
T_ADDITIONAL == <<59, 59, 32, 65, 68, 68, 73, 84, 73, 79, 78, 65, 76, 32, 83, 69, 67, 84, 73, 79, 78, 58>>
T_OPTIONS == <<59, 59, 32, 79, 80, 84, 73, 79, 78, 83, 32, 80, 83, 69, 85, 68, 79, 83, 69, 67, 84, 73, 79, 78, 58>>
T_TSIG == <<59, 59, 32, 84, 83, 73, 71, 32, 80, 83, 69, 85, 68, 79, 83, 69, 67, 84, 73, 79, 78, 58>>
T_SIG0 == <<59, 59, 32, 83, 73, 71, 48, 32, 80, 83, 69, 85, 68, 79, 83, 69, 67, 84, 73, 79, 78, 58>>
T_SIZE == <<59, 59, 32, 77, 83, 71, 32, 83, 73, 90, 69, 32, 32, 114, 99, 118, 100, 58, 32>>
T_GARBAGE == <<59, 59, 32, 116, 114, 97, 105, 108, 105, 110, 103, 32, 103, 97, 114, 98, 97, 103, 101, 58, 32, 48, 120>>

\* the mnemonics of the opcodes, the codes and the LOCAL option
OpcodeNames == (0 :> <<81, 85, 69, 82, 89>>) @@ (4 :> <<78, 79, 84, 73, 70, 89>>) @@ (5 :> <<85, 80, 68, 65, 84, 69>>)
CodeNames == (0 :> <<78, 79, 69, 82, 82, 79, 82>>) @@ (3 :> <<78, 88, 68, 79, 77, 65, 73, 78>>) @@ (5 :> <<82, 69, 70, 85, 83, 69, 68>>)

opcodeToString(opcode) == OpcodeNames[opcode]
codeToString(code) == CodeNames[code]
optionToString(code) == <<76, 79, 67, 65, 76>>

NameToNumber(names, str) ==
  IF \E n \in DOMAIN names : names[n] = str
    THEN [err |-> "none", val |-> CHOOSE n \in DOMAIN names : names[n] = str]
    ELSE [err |-> "Error", val |-> -1]

stringToOpcode(str) == NameToNumber(OpcodeNames, str)
stringToCode(str) == NameToNumber(CodeNames, str)

\* the flags of the header in the order toString prints them
FlagNames ==
  <<[bit |-> 32768, name |-> <<113, 114>>], [bit |-> 1024, name |-> <<97, 97>>],
    [bit |-> flags_TC, name |-> <<116, 99>>], [bit |-> 256, name |-> <<114, 100>>],
    [bit |-> 128, name |-> <<114, 97>>], [bit |-> 64, name |-> <<122>>],
    [bit |-> 32, name |-> <<97, 100>>], [bit |-> 16, name |-> <<99, 100>>]>>

eflags_DO == 32768

getFlag(word, bit) == (word \div bit) % 2 = 1
setFlag(word, bit) == IF getFlag(word, bit) THEN word ELSE word + bit

\* Buffer.toString('hex') and util.parseHex
HexDigit(d) == IF d < 10 THEN ZERO_CHAR + d ELSE 97 + (d - 10)
HexValue(ch) ==
  IF isDigit(ch) THEN ch - ZERO_CHAR
  ELSE IF ch >= 97 /\ ch <= 102 THEN ch - 87
  ELSE IF ch >= 65 /\ ch <= 70 THEN ch - 55
  ELSE -1

RECURSIVE toHex(_)
toHex(data) ==
  IF data = <<>> THEN <<>>
  ELSE <<HexDigit(Head(data) \div 16), HexDigit(Head(data) % 16)>> \o toHex(Tail(data))

toUpperCase(str) == [k \in 1..Len(str) |-> IF str[k] >= 97 /\ str[k] <= 122 THEN str[k] - 32 ELSE str[k]]

parseHex(str) ==
  IF Len(str) % 2 = 0 /\ (\A k \in 1..Len(str) : HexValue(str[k]) >= 0)
    THEN [err |-> "none",
          val |-> [k \in 1..(Len(str) \div 2) |->
                     16 * HexValue(str[2 * k - 1]) + HexValue(str[2 * k])]]
    ELSE [err |-> "Error", val |-> <<>>]

\* util.splitLines: the lines of the text that are not empty
splitLines(str) == Pieces(str, {i \in 1..Len(str) : str[i] = NEWLINE})

\* util.startsWith, util.endsWith
util_startsWith(s, pre) == Len(pre) <= Len(s) /\ SubSeq(s, 1, Len(pre)) = pre
util_endsWith(s, suf) == Len(suf) <= Len(s) /\ SubSeq(s, Len(s) - Len(suf) + 1, Len(s)) = suf

\* str.slice(0, -1)
DropLast(str) == SubSeq(str, 1, Len(str) - 1)

RECURSIVE Concat(_)
Concat(parts) == IF parts = <<>> THEN <<>> ELSE Head(parts) \o Concat(Tail(parts))

\* Question.toString(), Question.fromString(str)
Question_toString(qs) ==
  Join(<<qs.name, classToString(qs.class), typeToString(qs.type)>>, <<SPACE>>)

Question_fromString(str) ==
  Only({
    IF Len(parts) # 3 \/ ~util_isName(parts[1]) THEN [err |-> "AssertionError", qs |-> Null]
    ELSE IF stringToClass(parts[2]).err # "none" \/ stringToType(parts[3]).err # "none"
      THEN [err |-> "Error", qs |-> Null]
    ELSE [err |-> "none",
          qs |-> Question(parts[1], stringToType(parts[3]).val, stringToClass(parts[2]).val)]
    : parts \in {splitSP(str)}})

\* opt.toString() of an option with LOCAL option data
Option_toString(opt) ==
  optionToString(opt.code) \o <<SPACE>>
    \o (IF opt.option.data = <<>> THEN <<45>> ELSE toUpperCase(toHex(opt.option.data)))

\* rr.data.toMinimal() of the OPT record
OPT_toMinimal(rd) ==
  Concat([k \in 1..Len(rd.options) |->
            <<SEMICOLON, SPACE>> \o Option_toString(rd.options[k]) \o <<NEWLINE>>])

\* the lines of a section: a blank line, the heading, one line per record
Section(heading, lines) ==
  IF lines = <<>> THEN <<>>
  ELSE <<NEWLINE>> \o heading \o <<NEWLINE>>
         \o Concat([k \in 1..Len(lines) |-> lines[k] \o <<NEWLINE>>])

NonEmpty(s) == s # <<>>

\* the size toString() stores when the message has none
Message_sized(m) ==
  IF m.size = 0 THEN [m EXCEPT !.size = Message_getSizes(m, FALSE, NullMap).size] ELSE m

\* toString() without the lines of time and server: the text and the message,
\* whose size toString() has set
Message_toString(m) ==
  Only({
    [msg |-> sized,
     str |->
       T_HEADER \o <<32, 111, 112, 99, 111, 100, 101, 58, 32>> \o opcodeToString(m.opcode) \o <<44, 32, 115, 116, 97, 116, 117, 115, 58, 32>>
         \o codeToString(m.code) \o <<44, 32, 105, 100, 58, 32>> \o Decimal(m.id) \o <<NEWLINE>>
         \o T_FLAGS \o <<SPACE>>
         \o Join(SelectSeq([k \in 1..Len(FlagNames) |->
                              IF getFlag(m.flags, FlagNames[k].bit) THEN FlagNames[k].name
                              ELSE <<>>], NonEmpty), <<SPACE>>)
         \o SEMI
         \o <<32, 81, 85, 69, 82, 89, 58, 32>> \o Decimal(Len(m.question)) \o <<COMMA>>
         \o <<32, 65, 78, 83, 87, 69, 82, 58, 32>> \o Decimal(Len(m.answer)) \o <<COMMA>>
         \o <<32, 65, 85, 84, 72, 79, 82, 73, 84, 89, 58, 32>> \o Decimal(Len(m.authority)) \o <<COMMA>>
         \o <<32, 65, 68, 68, 73, 84, 73, 79, 78, 65, 76, 58, 32>> \o Decimal(Message_arcount(m)) \o <<NEWLINE>>
         \o (IF m.edns.enabled
               THEN <<NEWLINE>> \o T_OPT \o <<NEWLINE>> \o T_EDNS
                      \o Decimal(m.edns.version) \o <<44, 32, 102, 108, 97, 103, 115, 58>>
                      \o (IF getFlag(m.edns.flags, eflags_DO) THEN <<32, 100, 111>> ELSE <<>>)
                      \o <<59, 32, 117, 100, 112, 58, 32>> \o Decimal(m.edns.size)
               ELSE <<>>)
         \o Section(T_QUESTION, [k \in 1..Len(m.question) |->
                                   SEMI \o Question_toString(m.question[k])])
         \o Section(T_ANSWER, [k \in 1..Len(m.answer) |-> Record_toString(m.answer[k])])
         \o Section(T_AUTHORITY,
                    [k \in 1..Len(m.authority) |-> Record_toString(m.authority[k])])
         \o Section(T_ADDITIONAL,
                    [k \in 1..Len(m.additional) |-> Record_toString(m.additional[k])])
         \o (IF m.edns.enabled /\ m.edns.options # <<>>
               THEN <<NEWLINE>> \o T_OPTIONS \o <<NEWLINE>>
                      \o OPT_toMinimal(EDNS_toRecord(m.edns).data)
               ELSE <<>>)
         \o (IF m.tsig # Null
               THEN <<NEWLINE>> \o T_TSIG \o <<NEWLINE>> \o Record_toString(m.tsig) \o <<NEWLINE>>
               ELSE <<>>)
         \o (IF m.sig0 # Null
               THEN <<NEWLINE>> \o T_SIG0 \o <<NEWLINE>> \o Record_toString(m.sig0) \o <<NEWLINE>>
               ELSE <<>>)
         \o <<NEWLINE>>
         \o (IF sized.size > 0 THEN T_SIZE \o Decimal(sized.size) \o <<NEWLINE>> ELSE <<>>)
         \o (IF m.trailing # <<>>
               THEN <<NEWLINE>> \o T_GARBAGE \o toHex(m.trailing) \o <<NEWLINE>>
               ELSE <<>>)]
    : sized \in {Message_sized(m)}})

\* the first line after the idx lines read that starts with the prefix, or 0
SeekPos(lines, idx, prefix) ==
  IF \E j \in (idx + 1)..Len(lines) : util_startsWith(lines[j], prefix)
    THEN CHOOSE j \in (idx + 1)..Len(lines) :
           /\ util_startsWith(lines[j], prefix)
           /\ \A k \in (idx + 1)..(j - 1) : ~util_startsWith(lines[k], prefix)
    ELSE 0

\* what fromString(str) has read: idx lines, and the locals of the function
MS_Start ==
  [err |-> "none", idx |-> 0, opcode |-> 0, code |-> 0, id |-> 0, bits |-> 0,
   qdcount |-> 0, ancount |-> 0, nscount |-> 0, arcount |-> 0,
   enabled |-> FALSE, version |-> 0, dnssec |-> FALSE, udp |-> MAX_UDP_SIZE,
   question |-> <<>>, answer |-> <<>>, authority |-> <<>>, additional |-> <<>>,
   tsig |-> Null, sig0 |-> Null, size |-> 0, trailing |-> <<>>]

MS_Fail(st, err) == [st EXCEPT !.err = err]

\* 'flags:;' taken apart into 'flags:' and ';'
SplitFlags(parts, k) ==
  IF Len(parts) >= k /\ parts[k] = <<102, 108, 97, 103, 115, 58, 59>>
    THEN SubSeq(parts, 1, k - 1) \o <<<<102, 108, 97, 103, 115, 58>>, SEMI>> \o SubSeq(parts, k + 1, Len(parts))
    ELSE parts

\* the loop over the flag words: the bits set and the words behind the ';'
RECURSIVE FlagLoop(_, _, _, _)
FlagLoop(words, i, names, bits) ==
  IF i > Len(words) THEN [err |-> "Error", bits |-> bits, rest |-> <<>>]
  ELSE Only({
    Only({
      IF flag # <<>> /\ ~\E k \in 1..Len(names) : names[k].name = flag
        THEN [err |-> "Error", bits |-> bits, rest |-> <<>>]
      ELSE Only({
           IF end THEN [err |-> "none", bits |-> bits1, rest |-> SubSeq(words, i + 1, Len(words))]
           ELSE FlagLoop(words, i + 1, names, bits1)
           : bits1 \in {IF flag = <<>> THEN bits
                        ELSE setFlag(bits, names[CHOOSE k \in 1..Len(names) :
                                                   names[k].name = flag].bit)}})
      : flag \in {IF end THEN DropLast(words[i]) ELSE words[i]}})
    : end \in {words[i][Len(words[i])] = SEMICOLON}})

\* the header line
MS_Header(st, lines) ==
  Only({
    IF h = 0 THEN MS_Fail(st, "Error")
    ELSE Only({
      IF ~(/\ Len(hdr) = 8
           /\ hdr[1] = <<59, 59>> /\ hdr[2] = <<45, 62, 62, 72, 69, 65, 68, 69, 82, 60, 60, 45>> /\ hdr[3] = <<111, 112, 99, 111, 100, 101, 58>>
           /\ util_endsWith(hdr[4], <<COMMA>>) /\ hdr[5] = <<115, 116, 97, 116, 117, 115, 58>>
           /\ util_endsWith(hdr[6], <<COMMA>>) /\ hdr[7] = <<105, 100, 58>>
           /\ ~util_endsWith(hdr[8], <<COMMA>>))
        THEN MS_Fail(st, "AssertionError")
      ELSE IF \/ stringToOpcode(DropLast(hdr[4])).err # "none"
              \/ stringToCode(DropLast(hdr[6])).err # "none"
              \/ parseUint(hdr[8], U16_LIMIT).err # "none"
        THEN MS_Fail(st, "Error")
      ELSE [st EXCEPT !.idx = h,
                      !.opcode = stringToOpcode(DropLast(hdr[4])).val,
                      !.code = stringToCode(DropLast(hdr[6])).val,
                      !.id = parseUint(hdr[8], U16_LIMIT).val]
      : hdr \in {splitSP(lines[h])}})
    : h \in {SeekPos(lines, st.idx, T_HEADER)}})

\* the words 'QUERY: n, ANSWER: n, AUTHORITY: n, ADDITIONAL: n'
MS_Counts(st, counts) ==
  IF ~(/\ Len(counts) = 8
       /\ counts[1] = <<81, 85, 69, 82, 89, 58>> /\ util_endsWith(counts[2], <<COMMA>>)
       /\ counts[3] = <<65, 78, 83, 87, 69, 82, 58>> /\ util_endsWith(counts[4], <<COMMA>>)
       /\ counts[5] = <<65, 85, 84, 72, 79, 82, 73, 84, 89, 58>> /\ util_endsWith(counts[6], <<COMMA>>)
       /\ counts[7] = <<65, 68, 68, 73, 84, 73, 79, 78, 65, 76, 58>> /\ ~util_endsWith(counts[8], <<COMMA>>))
    THEN MS_Fail(st, "AssertionError")
  ELSE IF \/ parseUint(DropLast(counts[2]), U16_LIMIT).err # "none"
          \/ parseUint(DropLast(counts[4]), U16_LIMIT).err # "none"
          \/ parseUint(DropLast(counts[6]), U16_LIMIT).err # "none"
          \/ parseUint(counts[8], U16_LIMIT).err # "none"
    THEN MS_Fail(st, "Error")
  ELSE [st EXCEPT !.qdcount = parseUint(DropLast(counts[2]), U16_LIMIT).val,
                  !.ancount = parseUint(DropLast(counts[4]), U16_LIMIT).val,
                  !.nscount = parseUint(DropLast(counts[6]), U16_LIMIT).val,
                  !.arcount = parseUint(counts[8], U16_LIMIT).val]

\* the line of the flags and the counts
MS_Flags(st, lines) ==
  IF st.err # "none" THEN st
  ELSE IF st.idx + 1 > Len(lines) \/ ~util_startsWith(lines[st.idx + 1], T_FLAGS)
    THEN MS_Fail(st, "Error")
  ELSE Only({
    IF Len(sub) < 9 \/ sub[1] # <<59, 59>> \/ sub[2] # <<102, 108, 97, 103, 115, 58>>
      THEN MS_Fail(st, "AssertionError")
    ELSE Only({
         IF fl.err # "none" THEN MS_Fail(st, fl.err)
         ELSE MS_Counts([st EXCEPT !.idx = st.idx + 1, !.bits = fl.bits], fl.rest)
         : fl \in {FlagLoop(sub, 3, FlagNames, 0)}})
    : sub \in {SplitFlags(splitSP(lines[st.idx + 1]), 2)}})

\* the line '; EDNS: version: v, flags: f; udp: n'
MS_EdnsLine(st, line, at) ==
  Only({
    IF Len(hdr) < 7 \/ ~util_endsWith(hdr[4], <<COMMA>>) \/ hdr[5] # <<102, 108, 97, 103, 115, 58>>
      THEN MS_Fail(st, "AssertionError")
    ELSE IF parseUint(DropLast(hdr[4]), <<50, 53, 53>>).err # "none" THEN MS_Fail(st, "Error")
    ELSE IF st.arcount = 0 THEN MS_Fail(st, "AssertionError")
    ELSE Only({
         IF fl.err # "none" THEN MS_Fail(st, fl.err)
         ELSE IF Len(fl.rest) # 2 \/ fl.rest[1] # <<117, 100, 112, 58>> THEN MS_Fail(st, "AssertionError")
         ELSE IF parseUint(fl.rest[2], U16_LIMIT).err # "none" THEN MS_Fail(st, "Error")
         ELSE [st EXCEPT !.idx = at, !.enabled = TRUE,
                         !.version = parseUint(DropLast(hdr[4]), <<50, 53, 53>>).val,
                         !.arcount = st.arcount - 1,
                         !.dnssec = fl.bits = eflags_DO,
                         !.udp = parseUint(fl.rest[2], U16_LIMIT).val]
         : fl \in {FlagLoop(hdr, 6, <<[bit |-> eflags_DO, name |-> <<100, 111>>]>>, 0)}})
    : hdr \in {SplitFlags(splitSP(line), 5)}})

\* the OPT pseudosection, when the next heading is its heading
MS_Edns(st, lines) ==
  IF st.err # "none" THEN st
  ELSE Only({
    IF o = 0 THEN MS_Fail(st, "Error")
    ELSE IF lines[o] # T_OPT THEN [st EXCEPT !.idx = o - 1]
    ELSE IF o + 1 > Len(lines) \/ ~util_startsWith(lines[o + 1], T_EDNS)
      THEN MS_Fail(st, "Error")
    ELSE MS_EdnsLine(st, lines[o + 1], o + 1)
    : o \in {SeekPos(lines, st.idx, T_ANY)}})

\* count lines read as questions
RECURSIVE QuestionLoop(_, _, _, _)
QuestionLoop(lines, idx, count, acc) ==
  IF count = 0 THEN [err |-> "none", idx |-> idx, val |-> acc]
  ELSE IF idx + 1 > Len(lines) THEN [err |-> "Error", idx |-> idx, val |-> acc]
  ELSE IF lines[idx + 1][1] # SEMICOLON THEN [err |-> "AssertionError", idx |-> idx, val |-> acc]
  ELSE Only({
    IF qs.err # "none" THEN [err |-> qs.err, idx |-> idx, val |-> acc]
    ELSE QuestionLoop(lines, idx + 1, count - 1, Append(acc, qs.qs))
    : qs \in {Question_fromString(Tail(lines[idx + 1]))}})

MS_Question(st, lines) ==
  IF st.err # "none" \/ st.qdcount = 0 THEN st
  ELSE Only({
    IF q = 0 THEN MS_Fail(st, "Error")
    ELSE Only({
         [st EXCEPT !.err = r.err, !.idx = r.idx, !.question = r.val]
         : r \in {QuestionLoop(lines, q, st.qdcount, <<>>)}})
    : q \in {SeekPos(lines, st.idx, T_QUESTION)}})

\* count lines read as records
RECURSIVE RecordLoop(_, _, _, _)
RecordLoop(lines, idx, count, acc) ==
  IF count = 0 THEN [err |-> "none", idx |-> idx, val |-> acc]
  ELSE IF idx + 1 > Len(lines) THEN [err |-> "Error", idx |-> idx, val |-> acc]
  ELSE Only({
    IF rr.err # "none" THEN [err |-> rr.err, idx |-> idx, val |-> acc]
    ELSE RecordLoop(lines, idx + 1, count - 1, Append(acc, rr.rr))
    : rr \in {Record_fromString(lines[idx + 1])}})

\* the answer or the authority section
MS_Section(st, lines, count, heading) ==
  IF st.err # "none" \/ count = 0 THEN [err |-> st.err, idx |-> st.idx, val |-> <<>>]
  ELSE Only({
    IF s = 0 THEN [err |-> "Error", idx |-> st.idx, val |-> <<>>]
    ELSE RecordLoop(lines, s, count, <<>>)
    : s \in {SeekPos(lines, st.idx, heading)}})

MS_Answer(st, lines) ==
  Only({
    [st EXCEPT !.err = r.err, !.idx = r.idx, !.answer = r.val]
    : r \in {MS_Section(st, lines, st.ancount, T_ANSWER)}})

MS_Authority(st, lines) ==
  Only({
    [st EXCEPT !.err = r.err, !.idx = r.idx, !.authority = r.val]
    : r \in {MS_Section(st, lines, st.nscount, T_AUTHORITY)}})

\* the loop over the additional section and the pseudosections behind it: a
\* line that starts with ';' is passed over and the count raised by one
RECURSIVE AdditionalLoop(_, _, _, _)
AdditionalLoop(st, lines, i, arcount) ==
  IF i >= arcount THEN st
  ELSE IF st.idx + 1 > Len(lines) THEN MS_Fail(st, "Error")
  ELSE IF lines[st.idx + 1][1] = SEMICOLON
    THEN AdditionalLoop([st EXCEPT !.idx = st.idx + 1], lines, i + 1, arcount + 1)
  ELSE Only({
    IF rr.err # "none" THEN MS_Fail(st, rr.err)
    ELSE IF Record_isTSIG(rr.rr)
      THEN AdditionalLoop([st EXCEPT !.idx = st.idx + 1, !.tsig = rr.rr], lines, i + 1, arcount)
    ELSE IF Record_isSIG0(rr.rr)
      THEN AdditionalLoop([st EXCEPT !.idx = st.idx + 1, !.sig0 = rr.rr], lines, i + 1, arcount)
    ELSE AdditionalLoop([st EXCEPT !.idx = st.idx + 1,
                                   !.additional = Append(st.additional, rr.rr)],
                        lines, i + 1, arcount)
    : rr \in {Record_fromString(lines[st.idx + 1])}})

MS_Additional(st, lines) ==
  IF st.err # "none" \/ st.arcount = 0 THEN st
  ELSE Only({
    IF s = 0 THEN MS_Fail(st, "Error")
    ELSE IF lines[s] \notin {T_ADDITIONAL, T_OPTIONS, T_TSIG, T_SIG0} THEN MS_Fail(st, "Error")
    ELSE AdditionalLoop([st EXCEPT !.idx = s], lines, 0, st.arcount)
    : s \in {SeekPos(lines, st.idx, T_ANY)}})

\* find(';; MSG SIZE  rcvd: ') and find(';; trailing garbage: 0x')
MS_Size(st, lines) ==
  IF st.err # "none" THEN st
  ELSE Only({
    IF f = 0 THEN st
    ELSE IF parseUint(Substring(lines[f], Len(T_SIZE)), U32_LIMIT).err # "none"
      THEN MS_Fail(st, "Error")
    ELSE [st EXCEPT !.idx = f,
                    !.size = parseUint(Substring(lines[f], Len(T_SIZE)), U32_LIMIT).val]
    : f \in {SeekPos(lines, st.idx, T_SIZE)}})

MS_Garbage(st, lines) ==
  IF st.err # "none" THEN st
  ELSE Only({
    IF f = 0 THEN st
    ELSE IF parseHex(Substring(lines[f], Len(T_GARBAGE))).err # "none" THEN MS_Fail(st, "Error")
    ELSE [st EXCEPT !.idx = f, !.trailing = parseHex(Substring(lines[f], Len(T_GARBAGE))).val]
    : f \in {SeekPos(lines, st.idx, T_GARBAGE)}})

\* the message fromString() fills from its locals
MS_Message(st) ==
  [Message_new EXCEPT
     !.opcode = st.opcode, !.code = st.code, !.id = st.id, !.flags = st.bits,
     !.edns = [Message_new.edns EXCEPT
                 !.enabled = st.enabled, !.version = st.version,
                 !.flags = IF st.dnssec THEN eflags_DO ELSE 0,
                 !.size = st.udp, !.code = st.code \div 16],
     !.question = st.question, !.answer = st.answer, !.authority = st.authority,
     !.additional = st.additional, !.tsig = st.tsig, !.sig0 = st.sig0,
     !.size = st.size, !.trailing = st.trailing]

\* Message.fromString(str)
Message_fromString(str) ==
  Only({
  Only({
  Only({
  Only({
  Only({
  Only({
  Only({
  Only({
  Only({
  Only({
    [err |-> s9.err, msg |-> IF s9.err = "none" THEN MS_Message(s9) ELSE Message_new]
    : s9 \in {MS_Garbage(s8, lines)}})
    : s8 \in {MS_Size(s7, lines)}})
    : s7 \in {MS_Additional(s6, lines)}})
    : s6 \in {MS_Authority(s5, lines)}})
    : s5 \in {MS_Answer(s4, lines)}})
    : s4 \in {MS_Question(s3, lines)}})
    : s3 \in {MS_Edns(s2, lines)}})
    : s2 \in {MS_Flags(s1, lines)}})
    : s1 \in {MS_Header(MS_Start, lines)}})
    : lines \in {splitLines(str)}})


E_do == EDNS(TRUE, 4096, 0, 0, eflags_DO, <<>>)
E_local == EDNS(TRUE, MAX_UDP_SIZE, 0, 0, 0, <<LOCALOption(<<3>>)>>)

ScriptInputs ==
  {[Message(4660, f, op, code, qs, an, ns, ar, ed, Null, Null)
      EXCEPT !.size = sz, !.trailing = tr] :
     f \in {0, 33792}, op \in {0, 5}, code \in {0, 3}, qs \in {<<>>, <<Q_a>>},
     an \in {<<>>, <<R_NS, R_MX>>}, ns \in {<<>>, <<R_NS2>>}, ar \in {<<>>, <<R_MX>>},
     ed \in {EDNS_reset, E_big, E_do, E_local}, sz \in {0, 77}, tr \in {<<>>, <<1, 255>>}}

InitScript ==
  /\ msg \in ScriptInputs
  /\ enc = Idle
  /\ dec = Idle
  /\ NameIdle /\ ReadIdle /\ RecIdle

\* msg.toString()
T_Print ==
  /\ enc.pc = "idle"
  /\ \E r \in {Message_toString(msg)} :
       /\ msg' = r.msg
       /\ enc' = [pc |-> "printed", m0 |-> msg, str |-> r.str]
  /\ UNCHANGED <<dec, nameVars, readVars, recVars>>

\* Message.fromString(str)
T_Parse ==
  /\ enc.pc = "printed"
  /\ dec.pc = "idle"
  /\ dec' = [pc |-> "scanned"] @@ Message_fromString(enc.str)
  /\ UNCHANGED <<msg, enc, nameVars, readVars, recVars>>

NextScript == T_Print \/ T_Parse

SpecScript == InitScript /\ [][NextScript]_vars

(***************************************************************************)
(* Comparison of names: util.equal and Question.equals, run on pairs of    *)
(* short texts.                                                             *)
(***************************************************************************)
UPPER_A == 65
UPPER_Z == 90
CASE_BIT == 32

isUpper(ch) == ch >= UPPER_A /\ ch <= UPPER_Z

\* util.equal: the loop from i down to 0.  Both ai and bi are read from a, and
\* both are declared const: the fold ai |= 0x20 is an assignment to a
\* constant, which throws a TypeError when it is executed.
RECURSIVE EQ_Loop(_, _, _)
EQ_Loop(a, b, i) ==
  IF i < 0 THEN [err |-> "none", val |-> TRUE]
  ELSE Only({
    IF isUpper(ai) THEN [err |-> "TypeError", val |-> FALSE]
    ELSE IF isUpper(bi) THEN [err |-> "TypeError", val |-> FALSE]
    ELSE IF ai # bi THEN [err |-> "none", val |-> FALSE]
    ELSE EQ_Loop(a, b, i - 1)
    : ai \in {At(a, i)}, bi \in {At(a, i)}})

util_equal(a, b) ==
  IF Len(a) # Len(b) THEN [err |-> "none", val |-> FALSE]
  ELSE EQ_Loop(a, b, Len(a) - 1)

\* new Question(name, type)
Question_new(name, type) == Question(util_fqdn(name), type, classes_IN)

\* qs.equals(other)
Question_equals(qs, other) ==
  Only({
    IF r.err # "none" THEN r
    ELSE [err |-> "none", val |-> r.val /\ qs.type = other.type /\ qs.class = other.class]
    : r \in {util_equal(qs.name, other.name)}})

MaxPair == 2

PairChars == {UPPER_A, UPPER_A + CASE_BIT, UPPER_Z, UPPER_Z + 1, DOT}

RECURSIVE PairTexts(_)
PairTexts(k) ==
  IF k = 0 THEN {<<>>}
  ELSE LET shorter == PairTexts(k - 1)
       IN shorter \cup {Append(t, c) : t \in {x \in shorter : Len(x) = k - 1},
                                       c \in PairChars}

InitEqual ==
  /\ nc \in {[pc |-> "pair", a |-> a, b |-> b] :
               a \in PairTexts(MaxPair), b \in PairTexts(MaxPair)}
  /\ ReadIdle /\ MsgIdle /\ RecIdle

\* util.equal(a, b)
EQ_Call ==
  /\ nc.pc = "pair"
  /\ nc' = [pc |-> "compared", a |-> nc.a, b |-> nc.b, res |-> util_equal(nc.a, nc.b)]
  /\ UNCHANGED <<readVars, msgVars, recVars>>

\* qs.equals(other) for questions of one type holding the two names as stored
QS_Equals ==
  /\ nc.pc = "pair"
  /\ nc' = [pc |-> "questions", a |-> nc.a, b |-> nc.b,
            res |-> Question_equals(Question(nc.a, types_A, classes_IN),
                                    Question(nc.b, types_A, classes_IN))]
  /\ UNCHANGED <<readVars, msgVars, recVars>>

NextEqual == EQ_Call \/ QS_Equals

SpecEqual == InitEqual /\ [][NextEqual]_vars

(***************************************************************************)
(* Queries over a message: Message.collect, Message.isAnswer and           *)
(* Message.isReferral, run on responses as a resolver receives them.       *)
(***************************************************************************)
types_CNAME == 5
types_SOA == 6
types_NSEC == 47
codes_NOERROR == 0
codes_SERVFAIL == 2
codes_NXDOMAIN == 3
codes_YXDOMAIN == 6

CNAMERecord(target) == [kind |-> "CNAME", target |-> target]
SOARecord(ns, mbox, serial, refresh, retry, expire, minttl) ==
  [kind |-> "SOA", ns |-> ns, mbox |-> mbox, serial |-> serial, refresh |-> refresh,
   retry |-> retry, expire |-> expire, minttl |-> minttl]
NSECRecord(nextDomain, typeBitmap) ==
  [kind |-> "NSEC", nextDomain |-> nextDomain, typeBitmap |-> typeBitmap]

\* Message.collect: the loop over this.answer from its k-th record on.
\* st holds target and result, and err once util.equal has thrown.
RECURSIVE CL_Loop(_, _, _, _)
CL_Loop(answer, k, type, st) ==
  IF k > Len(answer) \/ st.err # "none" THEN st
  ELSE Only({
    CL_Loop(answer, k + 1, type,
      IF eq.err # "none" THEN [st EXCEPT !.err = eq.err]
      ELSE IF ~eq.val THEN st
      ELSE IF rr.type = types_CNAME
        THEN [st EXCEPT !.target = rr.data.target,
                        !.result = IF type = types_ANY \/ type = types_CNAME
                                     THEN Append(@, rr) ELSE @]
      ELSE IF type # types_ANY /\ rr.type # type THEN st
      ELSE [st EXCEPT !.result = Append(@, rr)])
    : eq \in {util_equal(answer[k].name, st.target)}, rr \in {answer[k]}})

Message_collect(m, name, type) ==
  CL_Loop(m.answer, 1, type, [err |-> "none", target |-> util_fqdn(name), result |-> <<>>])

Message_isAnswer(m) ==
  Len(m.answer) > 0 /\ m.code \in {codes_NOERROR, codes_YXDOMAIN, codes_NXDOMAIN}

Message_isReferral(m) ==
  IF Message_isAnswer(m) THEN FALSE
  ELSE Len(m.authority) > 0 /\ m.code \in {codes_NOERROR, codes_YXDOMAIN}

N_www == <<119, 119, 119, 46, 101, 120, 97, 109, 112, 108, 101, 46, 99, 111, 109, 46>>
N_Example == <<69, 120, 97, 109, 112, 108, 101, 46, 99, 111, 109, 46>>
N_elsewhere == <<111, 116, 104, 101, 114, 46, 122, 111, 110, 101, 46>>
N_Other == <<79, 116, 104, 101, 114, 46, 122, 111, 110, 101, 46>>
N_com == <<99, 111, 109, 46>>

R_CNAME == Record(N_example, types_CNAME, classes_IN, 300, CNAMERecord(N_www))
R_wwwA == Record(N_www, types_A, classes_IN, 300, ARecord(<<93, 184, 216, 34>>))
R_exampleA == Record(N_example, types_A, classes_IN, 300, ARecord(<<192, 0, 2, 1>>))
R_ExampleA == Record(N_Example, types_A, classes_IN, 300, ARecord(<<192, 0, 2, 2>>))
R_elsewhereA == Record(N_elsewhere, types_A, classes_IN, 300, ARecord(<<192, 0, 2, 3>>))
R_OtherA == Record(N_Other, types_A, classes_IN, 300, ARecord(<<192, 0, 2, 4>>))
R_comNS == Record(N_com, types_NS, classes_IN, 300, NSRecord(N_mail))
R_SOA ==
  Record(N_example, types_SOA, classes_IN, 300,
         SOARecord(N_mail, N_www, 1, 7200, 3600, 86400, 300))
R_NSEC == Record(N_example, types_NSEC, classes_IN, 300, NSECRecord(N_www, <<types_A>>))

CnameAnswer == <<R_CNAME, R_wwwA>>

QueryAnswers ==
  {<<>>, CnameAnswer, <<R_exampleA>>, <<R_ExampleA>>, <<R_elsewhereA, R_exampleA>>,
   <<R_CNAME, R_elsewhereA, R_wwwA>>, <<R_OtherA, R_exampleA>>}

QueryAuthorities == {<<>>, <<R_comNS>>, <<R_SOA>>, <<R_SOA, R_NSEC>>, <<R_comNS, R_SOA>>}

QueryInputs ==
  {Message(4660, 32768, 0, code, <<Question(N_example, types_A, classes_IN)>>,
           an, ns, <<>>, EDNS_reset, Null, Null) :
     code \in {codes_NOERROR, codes_SERVFAIL, codes_NXDOMAIN, codes_YXDOMAIN},
     an \in QueryAnswers, ns \in QueryAuthorities}

QueryNames == {N_example, DropLast(N_example), N_Example, N_www}

QueryTypes == {types_A, types_NS, types_CNAME, types_ANY}

InitQuery ==
  /\ msg \in QueryInputs
  /\ enc = Idle
  /\ dec = Idle
  /\ NameIdle /\ ReadIdle /\ RecIdle

\* msg.collect(name, type)
M_Collect ==
  /\ enc.pc = "idle"
  /\ \E name \in QueryNames, type \in QueryTypes :
       enc' = [pc |-> "collected", name |-> name, type |-> type,
               res |-> Message_collect(msg, name, type)]
  /\ UNCHANGED <<msg, dec, nameVars, readVars, recVars>>

\* msg.isAnswer() and msg.isReferral()
M_Classify ==
  /\ enc.pc = "idle"
  /\ enc' = [pc |-> "classified", answer |-> Message_isAnswer(msg),
             referral |-> Message_isReferral(msg)]
  /\ UNCHANGED <<msg, dec, nameVars, readVars, recVars>>

NextQuery == M_Collect \/ M_Classify

SpecQuery == InitQuery /\ [][NextQuery]_vars

(***************************************************************************)
(* The rdata text parser run on short texts: RD.fromString(str) for the    *)
(* record data classes of the line harness and HINFO, whose two fields     *)
(* are character-strings.                                                   *)
(***************************************************************************)
MaxPieces == 4

TextPieces ==
  {<<97>>, <<SPACE>>, <<SEMICOLON>>, <<QUOTE>>, <<BACKSLASH>>, <<49, 50, 51>>,
   <<QUOTE, 97, SPACE, 98, QUOTE>>}

RECURSIVE PieceTexts(_)
PieceTexts(k) ==
  IF k = 0 THEN {<<>>}
  ELSE {t \o p : t \in PieceTexts(k - 1), p \in TextPieces \cup {<<>>}}

SplitTypes == {types_NS, types_MX, types_TXT, types_HINFO}

InitSplit ==
  /\ rh \in {[pc |-> "text", type |-> type, str |-> str] :
               type \in SplitTypes, str \in PieceTexts(MaxPieces)}
  /\ NameIdle /\ ReadIdle /\ MsgIdle

\* RD.fromString(str): the text split into parts, and the parts read
FS_Call ==
  /\ rh.pc = "text"
  /\ rh' = [pc |-> "split", type |-> rh.type, str |-> rh.str,
            st |-> FS_Split(SchemaOf(rh.type), rh.str),
            res |-> schema_fromString(rh.type, rh.str)]
  /\ UNCHANGED <<nameVars, readVars, msgVars>>

NextSplit == FS_Call

SpecSplit == InitSplit /\ [][NextSplit]_vars

(***************************************************************************)
(* The life of a Message object: decode, respond, setEDNS, unsetEDNS and   *)
(* encode in any order, from new Message().  enc names the last operation. *)
(***************************************************************************)
flags_QR == 32768
flags_RD == 256
flags_CD == 16

\* Message.setFlag(bit, value) on the flags word
putFlag(word, bit, value) ==
  IF value THEN setFlag(word, bit)
  ELSE IF getFlag(word, bit) THEN word - bit ELSE word

\* msg.setEDNS(size, dnssec)
Message_setEDNS(m, size, dnssec) ==
  [m EXCEPT !.edns = [EDNS_reset EXCEPT !.enabled = TRUE, !.size = size,
                                        !.flags = putFlag(0, eflags_DO, dnssec)]]

\* msg.unsetEDNS() without the reset of an extended code
Message_unsetEDNS_KeepCode(m) ==
  [m EXCEPT !.edns = EDNS_reset]

\* msg.unsetEDNS()
Message_unsetEDNS(m) ==
  [m EXCEPT !.edns = EDNS_reset,
            !.code = IF m.code > CODE_MASK THEN codes_NOERROR ELSE m.code]

\* msg.respond(req)
Message_respond(m, req) ==
  Only({
    IF req.edns.enabled
      THEN Message_setEDNS(copied, req.edns.size, getFlag(req.edns.flags, eflags_DO))
      ELSE Message_unsetEDNS(copied)
    : copied \in {[m EXCEPT
        !.id = req.id,
        !.opcode = req.opcode,
        !.flags = putFlag(putFlag(putFlag(m.flags, flags_QR, TRUE),
                                  flags_RD, getFlag(req.flags, flags_RD)),
                          flags_CD, getFlag(req.flags, flags_CD)),
        !.question = req.question]}})

\* messages as they arrive: with and without OPT records, an OPT record with
\* an extended code before or after one without, and the last record missing
LifeWires ==
  {WireOctets(m, IF drop THEN WithoutLast(m) ELSE m) :
     m \in {Message(id, f, 0, code, <<Q_a>>, <<>>, <<>>, ar, EDNS_reset, Null, Null) :
              id \in {1, 4660}, f \in {0, flags_RD + flags_CD}, code \in {0, 3},
              ar \in {<<R_A>>, <<EDNS_toRecord(E_big)>>,
                      <<EDNS_toRecord([E_big EXCEPT !.code = 1])>>,
                      <<EDNS_toRecord([E_big EXCEPT !.code = 1]), EDNS_toRecord(E_opts)>>,
                      <<EDNS_toRecord(E_opts), EDNS_toRecord([E_big EXCEPT !.code = 127])>>}},
     drop \in BOOLEAN}

\* the messages Message.decode makes of them
LifeMessages == {Message_read(w).msg : w \in {x \in LifeWires : Message_read(x).err = "none"}}

InitLife ==
  /\ msg = Message_new
  /\ enc = [pc |-> "life", op |-> "new", req |-> Null]
  /\ dec = Idle
  /\ NameIdle /\ ReadIdle /\ RecIdle

\* msg = Message.decode(data)
V_Decode ==
  /\ \E m \in LifeMessages :
       /\ msg' = m
       /\ enc' = [pc |-> "life", op |-> "decode", req |-> Null]
  /\ UNCHANGED <<dec, nameVars, readVars, recVars>>

\* msg.respond(req)
V_Respond ==
  /\ \E req \in LifeMessages :
       /\ msg' = Message_respond(msg, req)
       /\ enc' = [pc |-> "life", op |-> "respond", req |-> req]
  /\ UNCHANGED <<dec, nameVars, readVars, recVars>>

\* msg.setEDNS(size, dnssec)
V_SetEDNS ==
  /\ \E size \in {MAX_UDP_SIZE, 2 * MAX_UDP_SIZE}, dnssec \in BOOLEAN :
       msg' = Message_setEDNS(msg, size, dnssec)
  /\ enc' = [pc |-> "life", op |-> "setEDNS", req |-> Null]
  /\ UNCHANGED <<dec, nameVars, readVars, recVars>>

\* msg.unsetEDNS()
V_UnsetEDNS ==
  /\ msg' = Message_unsetEDNS(msg)
  /\ enc' = [pc |-> "life", op |-> "unsetEDNS", req |-> Null]
  /\ UNCHANGED <<dec, nameVars, readVars, recVars>>

\* msg.encode(udp)
V_Encode ==
  /\ \E udp \in BOOLEAN : msg' = Message_encode(msg, udp, FALSE).msg
  /\ enc' = [pc |-> "life", op |-> "encode", req |-> Null]
  /\ UNCHANGED <<dec, nameVars, readVars, recVars>>

NextLife == V_Decode \/ V_Respond \/ V_SetEDNS \/ V_UnsetEDNS \/ V_Encode

SpecLife == InitLife /\ [][NextLife]_vars

(***************************************************************************)
(* A question from its constructor to the wire: new Question(name, type),  *)
(* qs.getSize(map) and qs.write(bw, map), with and without a compression   *)
(* map.                                                                     *)
(***************************************************************************)
AskNames == {N_a, N_ba, N_esc, N_example, N_www, N_mail}

AskInputs ==
  {[pc |-> "asked", name |-> IF dot THEN n ELSE DropLast(n), type |-> type, map |-> map] :
     n \in AskNames, dot \in BOOLEAN, type \in {types_A, types_NS, types_MX, types_ANY},
     map \in {NullMap, EmptyMap}}

InitAsk ==
  /\ rh \in AskInputs
  /\ NameIdle /\ ReadIdle /\ MsgIdle

\* qs = new Question(name, type)
QS_New ==
  /\ rh.pc = "asked"
  /\ rh' = [pc |-> "question", name |-> rh.name, map |-> rh.map,
            qs |-> Question_new(rh.name, rh.type)]
  /\ UNCHANGED <<nameVars, readVars, msgVars>>

\* qs.getSize(map)
QS_GetSize ==
  /\ rh.pc = "question"
  /\ rh' = [pc |-> "sized", name |-> rh.name, map |-> rh.map, qs |-> rh.qs,
            size |-> Question_getSize(rh.qs, rh.map)]
  /\ UNCHANGED <<nameVars, readVars, msgVars>>

\* qs.write(bw, map) on a writer of the size computed
QS_Write ==
  /\ rh.pc = "sized"
  /\ rh.size.err = "none"
  /\ rh' = [pc |-> "written", name |-> rh.name, map |-> rh.map, qs |-> rh.qs,
            size |-> rh.size,
            bw |-> Question_write(Writer(rh.size.size, rh.map), rh.qs)]
  /\ UNCHANGED <<nameVars, readVars, msgVars>>

NextAsk == QS_New \/ QS_GetSize \/ QS_Write

SpecAsk == InitAsk /\ [][NextAsk]_vars

(***************************************************************************)
(* Claims on the name codec                                                *)
(***************************************************************************)

\* C2: for every name N within the name invariants (labels of 1..63 octets,
\* wire length at most 255), sizing and writing N's presentation form succeed
\* and readName on the octets written returns exactly that presentation form.
C2_NameRoundTrip ==
  /\ nc.pc = "sized" => nc.size.err = "none"
  /\ nc.pc = "written" => nc.w.err = "none"
  /\ nc.pc = "read" => nc.back.err = "none" /\ nc.back.name = nc.text.name

\* where the octet at off leads next: the octet after a label, the target of a
\* pointer, or -1 when the name ends or breaks there
NextOff(data, off) ==
  IF off >= Len(data) THEN -1
  ELSE LET c == At(data, off)
       IN IF c = 0 THEN -1
          ELSE IF c < 64 THEN (IF off + 1 + c > Len(data) THEN -1 ELSE off + 1 + c)
          ELSE IF c >= PTR_BITS
            THEN (IF off + 1 >= Len(data) THEN -1 ELSE (c - PTR_BITS) * 256 + At(data, off + 1))
          ELSE -1

\* the name at off runs into a pointer that leads back to an octet of the name
RECURSIVE Cycles(_, _, _)
Cycles(data, off, seen) ==
  IF off = -1 THEN FALSE
  ELSE IF off \in seen THEN TRUE
  ELSE Cycles(data, NextOff(data, off), seen \cup {off})

\* C3: readName terminates on every buffer and start offset; a name whose
\* pointers lead back into itself ends in an encoding error; no name is
\* accepted after more than 10 pointers were followed.
C3_ReadNameTerminates ==
  /\ [](rn.pc = "run" => <>(rn.pc \in {"done", "EncodingError"}))
  /\ [](rn.pc = "done" => rn.ptr <= MAX_PTRS)
  /\ [](Cycles(rnData, rnOff, {}) /\ rn.pc # "run" => rn.pc = "EncodingError")

\* a pointer loop was followed until the count of pointers ended it
C3_Witness ==
  /\ Cycles(rnData, rnOff, {})
  /\ rn.pc = "EncodingError"
  /\ rn.ptr = MAX_PTRS + 1

\* C4: readName rejects with an encoding error every pointer whose target is
\* greater than or equal to the offset at which the pointer itself is read.
C4_PointersOnlyBackward ==
  [][(/\ rn.pc = "run"
      /\ rn.off + 1 < Len(rnData)
      /\ At(rnData, rn.off) >= PTR_BITS
      /\ NextOff(rnData, rn.off) >= rn.off)
       => rn'.pc = "EncodingError"]_vars

(***************************************************************************)
(* Claims on the record and message codec                                  *)
(***************************************************************************)

\* the fields two messages are compared on
SameMessage(a, b) ==
  /\ a.id = b.id /\ a.flags = b.flags /\ a.opcode = b.opcode /\ a.code = b.code
  /\ a.question = b.question
  /\ a.answer = b.answer /\ a.authority = b.authority /\ a.additional = b.additional
  /\ a.edns.enabled = b.edns.enabled /\ a.edns.size = b.edns.size
  /\ a.edns.version = b.edns.version /\ a.edns.flags = b.edns.flags
  /\ a.edns.options = b.edns.options
  /\ a.tsig = b.tsig /\ a.sig0 = b.sig0

\* C1: for every message M without trailing octets, decoding the TCP encoding
\* of M succeeds and yields a message equal to M in id, flags, opcode, code,
\* the four sections, EDNS (enabled, size, version, flags, options), tsig and
\* sig0.
C1_TcpRoundTrip ==
  /\ (enc.pc = "encoded" /\ ~enc.compress /\ ~enc.udp) => enc.err = "none"
  /\ (dec.pc = "decoded" /\ ~enc.compress /\ ~enc.udp)
       => dec.err = "none" /\ SameMessage(dec.msg, enc.m0)

\* where the first record starts in the octets of a message of one question
FirstRecordAt(bytes) == readName(bytes, HEADER_SIZE).off + QS_FIXED

\* C5: in the output of Message.compress, a name that repeats an earlier one
\* (here the owner of the first record, equal to the name of the question at
\* offset 12) is a two-octet pointer to the first occurrence.
C5_RepeatedNameIsPointer ==
  (/\ enc.pc = "encoded" /\ enc.compress /\ enc.err = "none"
   /\ Len(enc.m0.question) = 1 /\ Len(enc.written) >= 1
   /\ enc.written[1].name = enc.m0.question[1].name
   /\ enc.written[1].name # <<DOT>>)
    => /\ At(enc.bytes, FirstRecordAt(enc.bytes)) = PTR_BITS + (HEADER_SIZE \div 256)
       /\ At(enc.bytes, FirstRecordAt(enc.bytes) + 1) = HEADER_SIZE % 256

\* max_size of a message: 512, or the size EDNS advertises when it is enabled
\* and that size is at least 512
MaxSize(m) ==
  IF m.edns.enabled /\ m.edns.size >= MAX_UDP_SIZE THEN m.edns.size ELSE MAX_UDP_SIZE

\* C6: every encode / compress call returns octets; with udp they are at most
\* max_size long and hold as many records as the size pass found to fit;
\* without udp they hold every record of the message.
C6_UdpWithinMaxSize ==
  enc.pc = "encoded"
    => /\ enc.err = "none"
       /\ enc.udp => Len(enc.bytes) <= MaxSize(enc.m0) /\ Len(enc.written) = enc.items
       /\ ~enc.udp => enc.written = enc.held

\* the TC bit of the flags word in the octets returned
TcWritten(bytes) == ((At(bytes, 2) * 256 + At(bytes, 3)) \div flags_TC) % 2 = 1

\* a record the message held when the call was made is not among those written
LeftOut(e) ==
  \E k \in 1..Len(e.held) :
    Cardinality({j \in 1..Len(e.written) : e.written[j] = e.held[k]})
      < Cardinality({j \in 1..Len(e.held) : e.held[j] = e.held[k]})

\* C7: the TC bit of the flags word written is set if and only if at least
\* one record the message holds was left out of the output.
C7_TcIffRecordLeftOut ==
  (enc.pc = "encoded" /\ enc.err = "none") => (TcWritten(enc.bytes) <=> LeftOut(enc))

\* C8: a udp call returns octets whose records are a prefix of answer followed
\* by authority, and then either all of the additional records (additional,
\* OPT, TSIG, SIG(0)) or none of them.
C8_TruncationKeepsPrefix ==
  (enc.pc = "encoded" /\ enc.udp)
    => /\ enc.err = "none"
       /\ LET core == enc.m0.answer \o enc.m0.authority
          IN \/ enc.written = enc.held
             \/ \E k \in 0..Len(core) : enc.written = SubSeq(core, 1, k)

\* C9: after Record.read the reader stands at start_of_rdata + rdlength,
\* whatever the type's decoder consumed, and the record that follows decodes
\* as it was written.
C9_OffsetAfterRecord ==
  (rh.pc = "read" /\ rh.first.br.err = "none")
    => /\ rh.first.br.off = rh.rdStart + rh.rdlength
       /\ rh.second.br.err = "none"
       /\ rh.second.val = R_A

C11_CodeSurvives ==
  /\ (enc.pc = "encoded" /\ ~enc.udp) => enc.err = "none"
  /\ (dec.pc = "decoded" /\ ~enc.udp)
       => dec.err = "none" /\ dec.msg.code = enc.m0.code

\* the ARCOUNT field of the header in the octets returned
ArcountWritten(bytes) == At(bytes, 10) * 256 + At(bytes, 11)

\* the records written behind the answer and authority records
AdditionalWritten(e) ==
  SubSeq(e.written, Len(e.m0.answer) + Len(e.m0.authority) + 1, Len(e.written))

\* the octets hold an additional section of a regular record, an OPT record
\* and a TSIG record, in that order
RegularOptTsig(e) ==
  /\ e.err = "none"
  /\ Len(e.written) >= Len(e.m0.answer) + Len(e.m0.authority)
  /\ ArcountWritten(e.bytes) = 3
  /\ Len(AdditionalWritten(e)) = 3
  /\ ~Record_isOPT(AdditionalWritten(e)[1])
  /\ ~Record_isTSIG(AdditionalWritten(e)[1])
  /\ ~Record_isSIG0(AdditionalWritten(e)[1])
  /\ Record_isOPT(AdditionalWritten(e)[2])
  /\ Record_isTSIG(AdditionalWritten(e)[3])

\* C12: decoding a message whose additional section is a regular record, an
\* OPT record and a TSIG record gives additional = [the regular record], the
\* OPT in the EDNS slot and the TSIG in the tsig slot; and the ARCOUNT every
\* encode writes is additional.length plus one for each of EDNS enabled, tsig
\* present, sig0 present.
C12_AdditionalSlots ==
  /\ (enc.pc = "encoded" /\ enc.err = "none")
       => ArcountWritten(enc.bytes)
            = Len(enc.m0.additional) + (IF enc.m0.edns.enabled THEN 1 ELSE 0)
                + (IF enc.m0.tsig # Null THEN 1 ELSE 0)
                + (IF enc.m0.sig0 # Null THEN 1 ELSE 0)
  /\ (dec.pc = "decoded" /\ RegularOptTsig(enc))
       => /\ dec.err = "none"
          /\ dec.msg.additional = <<AdditionalWritten(enc)[1]>>
          /\ dec.msg.edns.enabled
          /\ dec.msg.edns.size = AdditionalWritten(enc)[2].class
          /\ dec.msg.edns.options
               = [k \in 1..Len(AdditionalWritten(enc)[2].data.options) |->
                    AdditionalWritten(enc)[2].data.options[k].option]
          /\ dec.msg.tsig = AdditionalWritten(enc)[3]
          /\ dec.msg.sig0 = Null

\* such a message was decoded, and encoding it had written ARCOUNT 3
C12_Witness ==
  /\ dec.pc = "decoded"
  /\ RegularOptTsig(enc)
  /\ enc.m0.edns.enabled
  /\ dec.msg.tsig = R_TSIG
  /\ dec.msg.additional = <<R_A>>

\* the octets decoded are all the octets of the message dec.m
WholeWire == dec.pc = "parsed" /\ dec.cut = 0 /\ ~dec.drop

\* the OPT records among the additional records of the octets, in order
OptsOf(m) == SelectSeq(m.additional, Record_isOPT)

\* C13: when the additional section of the octets decoded holds more than one
\* OPT record, the first one fills the EDNS slot and supplies the high bits of
\* the response code.
C13_FirstOptWins ==
  (WholeWire /\ Len(OptsOf(dec.m)) > 1)
    => /\ dec.r.err = "none"
       /\ dec.r.msg.edns.enabled
       /\ dec.r.msg.edns.size = OptsOf(dec.m)[1].class
       /\ dec.r.msg.edns.flags = OptsOf(dec.m)[1].ttl % 65536
       /\ dec.r.msg.code
            = (dec.m.code % 16) + 16 * ((OptsOf(dec.m)[1].ttl \div 16777216) % 256)

\* C14: in the octets of every encode / compress call that wrote a TSIG
\* record, the TSIG record is the last record written.
C14_TsigIsLast ==
  (enc.pc = "encoded" /\ enc.err = "none")
    => \A k \in 1..Len(enc.written) :
         Record_isTSIG(enc.written[k]) => k = Len(enc.written)

\* the message whose questions and records the octets decoded hold
WireBody == IF dec.drop THEN WithoutLast(dec.m) ELSE dec.m

\* the octets decoded end in the middle of an answer or authority record
EndsMidRecord ==
  /\ dec.pc = "parsed"
  /\ dec.cut > 0
  /\ WireBody.additional = <<>>
  /\ WireBody.answer \o WireBody.authority # <<>>

\* C15: when TC is set and the octets end in the middle of a record of the
\* answer or authority section, decode returns the message with the records
\* decoded before that record.
C15_PartialUnderTc ==
  (EndsMidRecord /\ Message_tc(dec.m))
    => /\ dec.r.err = "none"
       /\ dec.r.msg.answer \o dec.r.msg.authority
            = SubSeq(WireBody.answer \o WireBody.authority, 1,
                     Len(WireBody.answer \o WireBody.authority) - 1)

(***************************************************************************)
(* Claims on the limits of names                                           *)
(***************************************************************************)

\* the number of octets the name at off takes on the wire once its pointers
\* are followed (length octets, label octets and the root octet), or -1 when
\* it runs past the data, holds an octet that starts neither a label nor a
\* pointer, or holds more than MAX_PTRS pointers
RECURSIVE WalkLen(_, _, _, _)
WalkLen(data, off, ptrs, acc) ==
  IF off >= Len(data) THEN -1
  ELSE IF At(data, off) = 0 THEN acc + 1
  ELSE IF NextOff(data, off) = -1 THEN -1
  ELSE IF At(data, off) < 64
    THEN WalkLen(data, NextOff(data, off), ptrs, acc + At(data, off) + 1)
  ELSE IF ptrs = MAX_PTRS THEN -1
  ELSE WalkLen(data, NextOff(data, off), ptrs + 1, acc)

\* C16: readName accepts a name exactly when it is well formed and takes at
\* most 255 octets on the wire, the root octet included; the characters that
\* escapes add to the text do not count.
C16_Limit255 ==
  nc.pc = "text"
    => (nc.text.err = "none" <=> WalkLen(nc.wire, 0, 0, 0) \in 1..READ_MAX)

\* a name of exactly 255 octets, every octet of its labels escaped as \DDD,
\* reached through a pointer, was accepted
C16_Witness ==
  /\ nc.pc = "text"
  /\ nc.text.err = "none"
  /\ nc.text.ptr = 1
  /\ WalkLen(nc.wire, 0, 0, 0) = READ_MAX
  /\ Len(nc.text.name) > 4 * READ_MAX - 20

\* the offsets of the text at which a character stands that no escape covers
RECURSIVE Unescaped(_, _)
Unescaped(t, i) ==
  IF i > Len(t) THEN {}
  ELSE IF t[i] # BACKSLASH THEN {i} \cup Unescaped(t, i + 1)
  ELSE IF i + 3 <= Len(t) /\ isDigit(t[i + 1]) /\ isDigit(t[i + 2]) /\ isDigit(t[i + 3])
    THEN Unescaped(t, i + 4)
  ELSE Unescaped(t, i + 2)

UnescapedDots(t) == {i \in Unescaped(t, 1) : t[i] = DOT}

\* the text has a label without octets: it starts with a dot that is not the
\* whole name, or two dots that no escape covers follow each other
EmptyLabel(t) ==
  \/ Len(t) > 1 /\ t[1] = DOT
  \/ \E i \in UnescapedDots(t) : i + 1 \in UnescapedDots(t)

\* the length octets of the labels written, in order
RECURSIVE LengthOctets(_, _)
LengthOctets(bytes, off) ==
  IF off >= Len(bytes) THEN <<>>
  ELSE <<At(bytes, off)>> \o LengthOctets(bytes, off + 1 + At(bytes, off))

\* C17: writeName rejects every text that has an empty label (a leading dot,
\* or two unescaped dots in a row) and every label longer than 63 octets:
\* what it writes has labels of 1..63 octets and a zero octet only as the root.
C17_LabelLimits ==
  nc.pc = "filled"
    => /\ EmptyLabel(nc.text) => nc.w.err # "none"
       /\ nc.w.err = "none"
            => \A k \in 1..Len(LengthOctets(nc.w.bytes, 0)) :
                 /\ LengthOctets(nc.w.bytes, 0)[k] < LABEL_LIMIT
                 /\ LengthOctets(nc.w.bytes, 0)[k] = 0
                      => k = Len(LengthOctets(nc.w.bytes, 0))

\* the flags word in the header of the octets returned
FlagsWritten(bytes) == At(bytes, 2) * 256 + At(bytes, 3)

\* QR, AA, TC, RD, RA, Z, AD and CD of a flags word
EightFlags(w) == (w % 65536) - ((w \div OPCODE_SHIFT) % 16) * OPCODE_SHIFT - (w % 16)

\* C18: the flags word written carries the opcode in bits 14..11 and the low
\* four bits of the code in bits 3..0 whatever the stored flags hold there,
\* and the stored flag bits elsewhere (TC added on truncation); the decoder
\* takes opcode and code out and keeps the eight flag bits as flags; a query
\* with AA set, id 0x1234 and one question comes back with the same id, flags,
\* opcode, code and question.
C18_FlagsWord ==
  /\ (enc.pc = "encoded" /\ enc.err = "none")
       => /\ (FlagsWritten(enc.bytes) \div OPCODE_SHIFT) % 16 = enc.m0.opcode % 16
          /\ FlagsWritten(enc.bytes) % 16 = enc.m0.code % 16
          /\ EightFlags(FlagsWritten(enc.bytes)) \in
               {EightFlags(enc.m0.flags),
                IF Message_tc(enc.m0) THEN EightFlags(enc.m0.flags)
                  ELSE EightFlags(enc.m0.flags) + flags_TC}
          /\ EightFlags(FlagsWritten(enc.bytes)) # EightFlags(enc.m0.flags)
               => LeftOut(enc)
  /\ (dec.pc = "decoded" /\ dec.err = "none")
       => /\ dec.msg.flags = EightFlags(FlagsWritten(enc.bytes))
          /\ dec.msg.opcode = (FlagsWritten(enc.bytes) \div OPCODE_SHIFT) % 16
          /\ dec.msg.code % 16 = FlagsWritten(enc.bytes) % 16
  /\ (dec.pc = "decoded" /\ enc.m0 \in HeaderInputs)
       => /\ dec.err = "none"
          /\ dec.msg.id = enc.m0.id
          /\ dec.msg.flags = EightFlags(enc.m0.flags)
          /\ dec.msg.opcode = enc.m0.opcode
          /\ dec.msg.code = enc.m0.code
          /\ dec.msg.question = enc.m0.question

\* the query with AA set and nothing else in its flags, opcode 5 and code 3,
\* was encoded and decoded
C18_Witness ==
  /\ dec.pc = "decoded"
  /\ enc.m0 \in HeaderInputs
  /\ enc.m0.flags = 1024
  /\ enc.m0.opcode = 5
  /\ enc.m0.code = 3
  /\ dec.msg.flags = 1024
  /\ dec.msg.opcode = 5
  /\ dec.msg.code = 3
  /\ dec.msg.id = 4660
  /\ dec.msg.question = <<Q_a>>

\* C19: a record of a registered type printed with toString and parsed with
\* Record.fromString comes back equal in name, ttl, class, type and data.
C19_LineRoundTrip ==
  rh.pc = "reparsed" => rh.back.err = "none" /\ rh.back.rr = rh.rr

\* C20: a message printed with toString and parsed with Message.fromString
\* comes back equal: opcode, code, id, flags, the four sections, the EDNS
\* state (enabled, version, DO flag, udp size, options), tsig, sig0, size and
\* trailing octets.
C20_TranscriptRoundTrip ==
  dec.pc = "scanned"
    => /\ dec.err = "none"
       /\ dec.msg.opcode = msg.opcode /\ dec.msg.code = msg.code /\ dec.msg.id = msg.id
       /\ dec.msg.flags = msg.flags
       /\ dec.msg.question = msg.question /\ dec.msg.answer = msg.answer
       /\ dec.msg.authority = msg.authority /\ dec.msg.additional = msg.additional
       /\ dec.msg.edns.enabled = msg.edns.enabled
       /\ dec.msg.edns.version = msg.edns.version
       /\ getFlag(dec.msg.edns.flags, eflags_DO) = getFlag(msg.edns.flags, eflags_DO)
       /\ dec.msg.edns.size = msg.edns.size
       /\ dec.msg.edns.options = msg.edns.options
       /\ dec.msg.tsig = msg.tsig /\ dec.msg.sig0 = msg.sig0
       /\ dec.msg.size = msg.size /\ dec.msg.trailing = msg.trailing

(***************************************************************************)
(* Claims on queries over a message                                        *)
(***************************************************************************)

\* the text with the ASCII letters A-Z folded to a-z
Fold(s) == [k \in 1..Len(s) |-> IF isUpper(s[k]) THEN s[k] + CASE_BIT ELSE s[k]]

\* C22: util.equal(a, b) never throws for strings and returns true exactly
\* when a and b have the same length and are identical after folding A-Z to
\* a-z in both; Question.equals compares the names the same way.
C22_EqualFoldsCase ==
  nc.pc \in {"compared", "questions"}
    => /\ nc.res.err = "none"
       /\ nc.res.val <=> (Len(nc.a) = Len(nc.b) /\ Fold(nc.a) = Fold(nc.b))

\* the name in its fully-qualified form
Qualified(s) == IF util_isFQDN(s) THEN s ELSE s \o <<DOT>>

\* the names reached from a set of names through the CNAME records of the
\* answer section from its k-th record on, letters folded
RECURSIVE ChainFrom(_, _, _)
ChainFrom(answer, k, names) ==
  IF k > Len(answer) THEN names
  ELSE ChainFrom(answer, k + 1,
         IF answer[k].type = types_CNAME /\ Fold(answer[k].name) \in names
           THEN names \cup {Fold(answer[k].data.target)} ELSE names)

\* C21: collect(name, type) follows the CNAME records of the answer section:
\* for the answer [name CNAME t; t TYPE data] and a type other than CNAME and
\* ANY it returns exactly the TYPE record owned by t, with or without the
\* trailing dot on name, and no record it returns is owned by a name other
\* than the queried one and the targets reached through the CNAME chain.
C21_CollectFollowsCname ==
  enc.pc = "collected"
    => /\ (msg.answer = CnameAnswer /\ enc.type = types_A
             /\ enc.name \in {N_example, DropLast(N_example)})
          => (enc.res.err = "none" /\ enc.res.result = <<R_wwwA>>)
       /\ \A k \in 1..Len(enc.res.result) :
            Fold(enc.res.result[k].name)
              \in ChainFrom(msg.answer, 1, {Fold(Qualified(enc.name))})

\* the section holds a record of the type
HasType(section, type) == \E k \in 1..Len(section) : section[k].type = type

\* C23: a response is a referral only when its authority section contains NS
\* records; a NODATA or NXDOMAIN response with an empty answer section and
\* only SOA / NSEC records in the authority section is not a referral.
C23_ReferralNeedsNS ==
  enc.pc = "classified"
    => /\ enc.referral => HasType(msg.authority, types_NS)
       /\ (msg.answer = <<>> /\ msg.code \in {codes_NOERROR, codes_NXDOMAIN}
             /\ msg.authority # <<>>
             /\ \A k \in 1..Len(msg.authority) :
                  msg.authority[k].type \in {types_SOA, types_NSEC})
          => ~enc.referral

(***************************************************************************)
(* Claims on errors                                                        *)
(***************************************************************************)

\* C24: a decoding that fails on malformed wire data (bad pointer, short
\* read, over-long name, bad label bits, an rdlength or option length past
\* the end of the input) fails with an EncodingError, never with an error of
\* another kind such as an assertion failure.
C24_DecodeErrorKind ==
  dec.pc = "parsed" => dec.r.err \in {"none", "EncodingError"}

(***************************************************************************)
(* Claims on the compression map                                           *)
(***************************************************************************)

\* the labels found at offset of the octets spell the suffix
Spells(bytes, offset, suffix) ==
  offset < Len(bytes)
    /\ Only({r.err = "none" /\ r.name = suffix : r \in {readName(bytes, offset)}})

\* C25: every entry (suffix -> offset) of the compression map of
\* Message.compress has offset < 2^14, and the labels at that offset of the
\* output spell the suffix; no entry comes from a size computation, the
\* rdlength computation of Record.write included.
C25_MapEntriesPointAtSuffix ==
  enc.pc = "encoded" /\ enc.compress /\ enc.err = "none"
    => \A s \in DOMAIN enc.map.m :
         /\ MapGet(enc.map, s) < MAP_LIMIT
         /\ Spells(enc.bytes, MapGet(enc.map, s), s)

\* the text without its blanks
NotBlank(ch) == ~Blank(ch)
NoBlanks(str) == SelectSeq(str, NotBlank)

\* what the tokenizer read of the text: all of it, or what precedes the ';'
\* it stopped at
Consumed(st, str) == IF st.stop THEN SubSeq(str, 1, st.i) ELSE str

\* one part per schema field, in schema order: the parts are as many as the
\* fields and, read one after another, make up the text read; no ';' is part
\* of a field that is not a character-string
OnePartPerField(st, str, schema) ==
  /\ st.err = "none"
  /\ Len(st.parts) = Len(schema)
  /\ \A k \in 1..Len(st.parts) :
       /\ st.parts[k] # <<>>
       /\ schema[k].type # "CHAR" => \A j \in 1..Len(st.parts[k]) : st.parts[k][j] # SEMICOLON
  /\ NoBlanks(Concat(st.parts)) = NoBlanks(Consumed(st, str))

\* a ';' that ended the parse: what follows it makes no difference
EndsAtComment(st, str, schema) ==
  st.stop
    => /\ At(str, st.i) = SEMICOLON
       /\ Only({p.err = st.err /\ p.message = st.message /\ p.parts = st.parts
                : p \in {FS_Split(schema, SubSeq(str, 1, st.i))}})

\* the three errors of the tokenizer and when each is thrown
ListedErrors(st, str, schema) ==
  \/ /\ st.message = "Too many fields for record."
     /\ st.index = Len(schema) /\ st.state = "SKIP"
     /\ NotBlank(At(str, st.i)) /\ At(str, st.i) # SEMICOLON
  \/ /\ st.message = "Missing data for record."
     /\ st.index < Len(schema)
  \/ /\ st.message = "Unclosed double quote."
     /\ st.index > 0 /\ schema[st.index].type = "CHAR" /\ st.state = "CHAR"

\* C26 as stated: the tokenizer ends with one part per schema field, in schema
\* order, or with one of the errors 'Too many fields for record.', 'Missing
\* data for record.' and 'Unclosed double quote.'; an unquoted ';' ends the
\* parse as a comment.
C26_ThreeErrors ==
  rh.pc = "split"
    => /\ \/ OnePartPerField(rh.st, rh.str, SchemaOf(rh.type))
          \/ rh.st.err = "Error" /\ ListedErrors(rh.st, rh.str, SchemaOf(rh.type))
       /\ EndsAtComment(rh.st, rh.str, SchemaOf(rh.type))

\* C26: the rdata text parser ends with exactly one part per schema field, in
\* schema order, or with an error: 'Too many fields for record.' when a token
\* starts after all fields were begun, 'Missing data for record.' when the
\* text ends before every field was begun, 'Unclosed double quote.' when a
\* character-string field is not closed, and 'Expected `"`.' when a
\* character-string field begins with another character than the double
\* quote; no assertion of the tokenizer fails, and an unquoted ';' ends the
\* parse as a comment.
C26_TokenizerOutcomes ==
  rh.pc = "split"
    => /\ \/ OnePartPerField(rh.st, rh.str, SchemaOf(rh.type))
          \/ rh.st.err = "Error" /\ ListedErrors(rh.st, rh.str, SchemaOf(rh.type))
          \/ /\ rh.st.err = "Error" /\ rh.st.message = "Expected quote."
             /\ SchemaOf(rh.type)[rh.st.index].type = "CHAR"
             /\ At(rh.str, rh.st.start) # QUOTE
       /\ EndsAtComment(rh.st, rh.str, SchemaOf(rh.type))

\* two character-strings, the second with a blank inside, and a comment
C26_Witness ==
  /\ rh.pc = "split"
  /\ rh.type = types_HINFO
  /\ rh.st.err = "none"
  /\ rh.st.stop
  /\ rh.st.parts = <<<<QUOTE, QUOTE>>, <<QUOTE, 97, SPACE, 98, QUOTE>>>>

(***************************************************************************)
(* Claims on the state of a message                                        *)
(***************************************************************************)

\* C27: Message.getSize, Message.encode and Message.compress leave every
\* field of the message as it was before the call, edns.enabled and
\* edns.code included.
C27_EncodeLeavesMessage ==
  enc.pc = "encoded" => msg = enc.m0

\* the code and the octets of each option
CodesAndData(opts) == [k \in 1..Len(opts) |-> <<opts[k].code, opts[k].option.data>>]

\* C28: the 16-bit code of every EDNS option survives decoding and encoding
\* again: the OPT record written from the message decoded carries the option
\* codes and the option data of the OPT record read, for unassigned codes and
\* for every code of the LOCAL range 65001..65534 too.
C28_OptionCodeKept ==
  (enc.pc = "reencoded" /\ dec.cut = 0 /\ ~dec.drop
     /\ Len(dec.m.additional) = 1 /\ Record_isOPT(dec.m.additional[1]))
    => /\ enc.err = "none"
       /\ \E k \in 1..Len(enc.written) :
            /\ Record_isOPT(enc.written[k])
            /\ CodesAndData(enc.written[k].data.options)
                 = CodesAndData(dec.m.additional[1].data.options)

\* C29: in every state reached from new Message() by decode, respond,
\* setEDNS, unsetEDNS and encode, a response code above 15 implies that EDNS
\* is enabled; unsetEDNS, and respond to a request without EDNS, leave the
\* code at 15 or below.
C29_ExtendedCodeNeedsEdns ==
  /\ msg.code > CODE_MASK => msg.edns.enabled
  /\ enc.op = "unsetEDNS" => msg.code <= CODE_MASK /\ ~msg.edns.enabled
  /\ (enc.op = "respond" /\ ~enc.req.edns.enabled)
       => msg.code <= CODE_MASK /\ ~msg.edns.enabled

\* a message decoded with an extended code that answered a request with EDNS
C29_Witness ==
  /\ enc.op = "respond"
  /\ enc.req.edns.enabled
  /\ msg.code > CODE_MASK
  /\ msg.edns.enabled
  /\ getFlag(msg.flags, flags_QR)

\* C30: for every non-empty valid name, with or without its trailing dot,
\* new Question(name, type) stores the fully-qualified form, ending in '.',
\* and the question can be sized and written: getSize and write succeed and
\* agree on the number of octets.
C30_QuestionIsWritable ==
  /\ rh.pc \in {"question", "sized", "written"}
       => rh.qs.name = Qualified(rh.name)
  /\ rh.pc = "sized" => rh.size.err = "none"
  /\ rh.pc = "written" => rh.bw.err = "none" /\ rh.bw.off = rh.size.size

====
